---- MODULE Spec2Model ----
(***************************************************************************)
(* flk: link registry, validator, link creation and repair session.        *)
(*                                                                         *)
(* Path strings are sequences of one-character strings, so that the        *)
(* string operations of the program (prefix tests, cleaning, joining,      *)
(* home folding and expansion) are computed and not assumed.  The          *)
(* filesystem is a function from physical paths (sequences of components)  *)
(* to nodes; stat, lstat, readlink, remove, symlink, link and mkdir -p are *)
(* operators over it.                                                      *)
(***************************************************************************)
EXTENDS Integers, Sequences, FiniteSets, TLC

VARIABLES
    fs,        \* the filesystem: physical path -> node
    nextIno,   \* next unused inode number
    disk,      \* content of the registry file at StorePath
    last,      \* what the last command did (inputs, outcome)
    steps,     \* number of commands and environment steps taken so far
    sess       \* the repair session of a running fix command

vars == <<fs, nextIno, disk, last, steps, sess>>

(***************************************************************************)
(* Strings and paths (path/filepath on a Unix platform)                    *)
(***************************************************************************)
SEP == "/"
DOT == <<".">>
DOTDOT == <<".", ".">>

HasPrefix(s, p) == Len(s) >= Len(p) /\ SubSeq(s, 1, Len(p)) = p

Drop(s, n) == SubSeq(s, n + 1, Len(s))

IsAbs(p) == Len(p) > 0 /\ p[1] = SEP

RECURSIVE SplitFrom(_, _, _)
SplitFrom(p, i, cur) ==
    IF i > Len(p)
    THEN IF cur = <<>> THEN <<>> ELSE <<cur>>
    ELSE IF p[i] = SEP
         THEN (IF cur = <<>> THEN <<>> ELSE <<cur>>) \o SplitFrom(p, i + 1, <<>>)
         ELSE SplitFrom(p, i + 1, Append(cur, p[i]))

\* The non-empty elements of p between separators.
Split(p) == SplitFrom(p, 1, <<>>)

RECURSIVE JoinComps(_)
JoinComps(cs) ==
    IF cs = <<>> THEN <<>>
    ELSE IF Len(cs) = 1 THEN cs[1]
    ELSE cs[1] \o <<SEP>> \o JoinComps(Tail(cs))

RECURSIVE CleanComps(_, _, _)
CleanComps(cs, rooted, out) ==
    IF cs = <<>> THEN out
    ELSE LET c == Head(cs) IN
         IF c = DOT THEN CleanComps(Tail(cs), rooted, out)
         ELSE IF c = DOTDOT
              THEN IF out # <<>> /\ out[Len(out)] # DOTDOT
                   THEN CleanComps(Tail(cs), rooted, SubSeq(out, 1, Len(out) - 1))
                   ELSE IF rooted
                        THEN CleanComps(Tail(cs), rooted, out)
                        ELSE CleanComps(Tail(cs), rooted, Append(out, c))
              ELSE CleanComps(Tail(cs), rooted, Append(out, c))

\* filepath.Clean: the shortest path name equivalent to p by lexical processing.
Clean(p) ==
    IF p = <<>> THEN DOT
    ELSE LET rooted == p[1] = SEP
             out == CleanComps(Split(p), rooted, <<>>)
         IN IF rooted THEN <<SEP>> \o JoinComps(out)
            ELSE IF out = <<>> THEN DOT ELSE JoinComps(out)

\* filepath.Join of two elements: empty elements are ignored, the result is cleaned.
Join(a, b) ==
    IF a = <<>>
    THEN IF b = <<>> THEN <<>> ELSE Clean(b)
    ELSE Clean(a \o <<SEP>> \o b)

RECURSIVE LastSep(_, _)
LastSep(p, i) == IF i = 0 THEN 0 ELSE IF p[i] = SEP THEN i ELSE LastSep(p, i - 1)

\* filepath.Dir: all but the last element of p, cleaned.
Dir(p) == Clean(SubSeq(p, 1, LastSep(p, Len(p))))

RECURSIVE CommonLen(_, _)
CommonLen(a, b) ==
    IF a = <<>> \/ b = <<>> \/ Head(a) # Head(b) THEN 0
    ELSE 1 + CommonLen(Tail(a), Tail(b))

RECURSIVE Ups(_)
Ups(n) == IF n = 0 THEN <<>> ELSE <<DOTDOT>> \o Ups(n - 1)

\* filepath.Rel from the element lists, of which the first k are common.
RelFrom(bc, tc, k) ==
    IF Drop(bc, k) # <<>> /\ Head(Drop(bc, k)) = DOTDOT
    THEN [err |-> TRUE, val |-> <<>>]
    ELSE [err |-> FALSE, val |-> JoinComps(Ups(Len(bc) - k) \o Drop(tc, k))]

RelComps(bc, tc) == RelFrom(bc, tc, CommonLen(bc, tc))

\* filepath.Rel on cleaned paths.
RelClean(base, targ) ==
    IF targ = base THEN [err |-> FALSE, val |-> DOT]
    ELSE IF IsAbs(base) # IsAbs(targ) THEN [err |-> TRUE, val |-> <<>>]
    ELSE RelComps(IF base = DOT THEN <<>> ELSE Split(base), Split(targ))

\* filepath.Rel: a relative path lexically equivalent to targ when joined to base.
Rel(basepath, targpath) == RelClean(Clean(basepath), Clean(targpath))

\* filepath.Abs in a process whose working directory is wd.
Abs(p, wd) == IF IsAbs(p) THEN Clean(p) ELSE Join(wd, p)

\* The user's home directory.
Home == <<"/", "h">>

\* A variant without the case of a path that is "~" alone.
ExpandHomeOfSlash(path, homeOK) ==
    IF ~HasPrefix(path, <<"~">>) THEN [err |-> FALSE, val |-> path]
    ELSE IF ~homeOK THEN [err |-> TRUE, val |-> <<>>]
    ELSE IF HasPrefix(path, <<"~", "/">>)
         THEN [err |-> FALSE, val |-> Join(Home, Drop(path, 2))]
         ELSE [err |-> FALSE, val |-> <<>>]

\* pathutil.ExpandHome; homeOK says whether os.UserHomeDir succeeds.
ExpandHome(path, homeOK) ==
    IF ~HasPrefix(path, <<"~">>) THEN [err |-> FALSE, val |-> path]
    ELSE IF ~homeOK THEN [err |-> TRUE, val |-> <<>>]
    ELSE IF path = <<"~">> THEN [err |-> FALSE, val |-> Home]
    ELSE IF HasPrefix(path, <<"~", "/">>)
         THEN [err |-> FALSE, val |-> Join(Home, Drop(path, 2))]
         ELSE [err |-> FALSE, val |-> <<>>]   \* returns "", err with err == nil

\* pathutil.NormalizePath: expand the tilde, then clean.
NormalizePath(path, homeOK) ==
    LET e == ExpandHome(path, homeOK)
    IN IF e.err THEN [err |-> TRUE, val |-> <<>>]
       ELSE [err |-> FALSE, val |-> Clean(e.val)]

\* store.foldPath: a leading home directory string is replaced by "~".
foldPath(path) ==
    IF HasPrefix(path, Home) THEN <<"~">> \o Drop(path, Len(Home)) ELSE path

\* store.shrinkHome, the folding of the older store: the cleaned path is
\* compared with the home directory and with the home directory and a separator.
shrinkHome(p) ==
    IF p = <<>> THEN p
    ELSE IF Clean(p) = Home THEN <<"~">>
    ELSE IF HasPrefix(Clean(p), Home \o <<SEP>>) THEN <<"~">> \o Drop(Clean(p), Len(Home))
    ELSE p

\* pathutil.ToAbsolute with one argument, as the create commands call it.
ToAbsolute(path, wd, homeOK) ==
    LET e == ExpandHome(path, homeOK)
    IN IF e.err THEN [err |-> TRUE, val |-> <<>>]
       ELSE [err |-> FALSE, val |-> Abs(e.val, wd)]

(***************************************************************************)
(* The filesystem.  A physical path is a sequence of components; the root  *)
(* is <<>> and is always a directory.  A node has a kind, an inode number  *)
(* (two names of one file share it) and, for a symbolic link, the stored   *)
(* target string.                                                          *)
(***************************************************************************)
RootNode == [k |-> "dir", ino |-> 0, tgt |-> <<>>]

Node(f, pp) == IF pp = <<>> THEN RootNode ELSE f[pp]

Parent(pp) == SubSeq(pp, 1, Len(pp) - 1)

HasChild(f, pp) ==
    \E q \in DOMAIN f : Len(q) > Len(pp) /\ SubSeq(q, 1, Len(pp)) = pp

\* Symbolic links followed in one resolution before the kernel answers ELOOP.
MaxSymlinks == 3

RECURSIVE Walk(_, _, _, _, _)
\* Path resolution from directory cur over the components todo.
Walk(f, cur, todo, followLast, fuel) ==
    IF todo = <<>> THEN [err |-> "ok", p |-> cur]
    ELSE LET c == Head(todo)
             rest == Tail(todo)
         IN IF c = DOT THEN Walk(f, cur, rest, followLast, fuel)
            ELSE IF c = DOTDOT
                 THEN Walk(f, IF cur = <<>> THEN <<>> ELSE Parent(cur), rest, followLast, fuel)
            ELSE LET ch == Append(cur, c) IN
                 IF ch \notin DOMAIN f THEN [err |-> "ENOENT", p |-> ch]
                 ELSE IF f[ch].k = "link" /\ (rest # <<>> \/ followLast)
                      THEN IF fuel = 0 THEN [err |-> "ELOOP", p |-> ch]
                           ELSE IF f[ch].tgt = <<>> THEN [err |-> "ENOENT", p |-> ch]
                           ELSE Walk(f, IF IsAbs(f[ch].tgt) THEN <<>> ELSE cur,
                                     Split(f[ch].tgt) \o rest, followLast, fuel - 1)
                 ELSE IF f[ch].k = "file" /\ rest # <<>>
                      THEN [err |-> "ENOTDIR", p |-> ch]
                 ELSE Walk(f, ch, rest, followLast, fuel)

Resolve(f, p, wd, followLast) ==
    IF p = <<>> THEN [err |-> "ENOENT", p |-> <<>>]
    ELSE Walk(f, IF IsAbs(p) THEN <<>> ELSE Split(wd), Split(p), followLast, MaxSymlinks)

\* os.Stat (follows links) and os.Lstat (does not follow the last link).
Stat(f, p, wd) == Resolve(f, p, wd, TRUE)
Lstat(f, p, wd) == Resolve(f, p, wd, FALSE)

\* os.IsNotExist(err): true of ENOENT only.
IsNotExist(r) == r.err = "ENOENT"

\* os.SameFile on two successful stat results.
SameFile(f, a, b) == Node(f, a.p).ino = Node(f, b.p).ino

\* The slot for name in the directory that the walk d has reached.
SlotIn(f, d, name) ==
    IF d.err # "ok" THEN d
    ELSE IF Node(f, d.p).k # "dir" THEN [err |-> "ENOTDIR", p |-> d.p]
    ELSE [err |-> "ok", p |-> Append(d.p, name)]

SlotOf(f, cs, start) ==
    IF cs = <<>> \/ cs[Len(cs)] \in {DOT, DOTDOT}
    THEN [err |-> "EBUSY", p |-> <<>>]
    ELSE SlotIn(f, Walk(f, start, SubSeq(cs, 1, Len(cs) - 1), TRUE, MaxSymlinks),
                cs[Len(cs)])

\* The directory that holds the last element of p, and that element's name.
Slot(f, p, wd) ==
    IF p = <<>> THEN [err |-> "ENOENT", p |-> <<>>]
    ELSE SlotOf(f, Split(p), IF IsAbs(p) THEN <<>> ELSE Split(wd))

Without(f, pp) == [q \in DOMAIN f \ {pp} |-> f[q]]

With(f, pp, node) == [q \in DOMAIN f \cup {pp} |-> IF q = pp THEN node ELSE f[q]]

RemoveAt(f, s) ==
    IF s.err # "ok" THEN [err |-> s.err, fs |-> f]
    ELSE IF s.p \notin DOMAIN f THEN [err |-> "ENOENT", fs |-> f]
    ELSE IF f[s.p].k = "dir" /\ HasChild(f, s.p) THEN [err |-> "ENOTEMPTY", fs |-> f]
    ELSE [err |-> "ok", fs |-> Without(f, s.p)]

\* os.Remove: unlink a file or link, rmdir an empty directory.
Remove(f, p, wd) == RemoveAt(f, Slot(f, p, wd))

SymlinkAt(f, s, target, ino) ==
    IF s.err = "EBUSY" THEN [err |-> "EEXIST", fs |-> f]
    ELSE IF s.err # "ok" THEN [err |-> s.err, fs |-> f]
    ELSE IF s.p \in DOMAIN f THEN [err |-> "EEXIST", fs |-> f]
    ELSE [err |-> "ok", fs |-> With(f, s.p, [k |-> "link", ino |-> ino, tgt |-> target])]

\* os.Symlink(target, linkpath); ino is the inode the new link gets.
Symlink(f, target, linkpath, wd, ino) == SymlinkAt(f, Slot(f, linkpath, wd), target, ino)

LinkAt(f, o, s) ==
    IF o.err # "ok" THEN [err |-> o.err, fs |-> f]
    ELSE IF Node(f, o.p).k = "dir" THEN [err |-> "EPERM", fs |-> f]
    ELSE IF s.err = "EBUSY" THEN [err |-> "EEXIST", fs |-> f]
    ELSE IF s.err # "ok" THEN [err |-> s.err, fs |-> f]
    ELSE IF s.p \in DOMAIN f THEN [err |-> "EEXIST", fs |-> f]
    ELSE [err |-> "ok", fs |-> With(f, s.p, f[o.p])]

\* os.Link(old, new) on Linux: linkat without AT_SYMLINK_FOLLOW, so a link given
\* as old is itself linked; directories cannot be hard-linked.
Link(f, old, new, wd) == LinkAt(f, Lstat(f, old, wd), Slot(f, new, wd))

RECURSIVE MkdirWalk(_, _, _, _)
RECURSIVE MkdirStep(_, _, _, _, _)
\* One element of os.MkdirAll: r is the walk from cur to the element.
MkdirStep(f, cur, todo, ino, r) ==
    IF r.err = "ok"
    THEN IF Node(f, r.p).k = "dir"
         THEN MkdirWalk(f, r.p, Tail(todo), ino)
         ELSE [err |-> "ENOTDIR", fs |-> f, ino |-> ino]
    ELSE IF r.err = "ENOENT" /\ Append(cur, Head(todo)) \notin DOMAIN f
         THEN MkdirWalk(With(f, Append(cur, Head(todo)),
                             [k |-> "dir", ino |-> ino, tgt |-> <<>>]),
                        Append(cur, Head(todo)), Tail(todo), ino + 1)
         ELSE [err |-> r.err, fs |-> f, ino |-> ino]

MkdirWalk(f, cur, todo, ino) ==
    IF todo = <<>> THEN [err |-> "ok", fs |-> f, ino |-> ino]
    ELSE MkdirStep(f, cur, todo, ino, Walk(f, cur, <<Head(todo)>>, TRUE, MaxSymlinks))

\* os.MkdirAll(dir): create dir and every missing parent.
MkdirAll(f, dir, wd, ino) ==
    IF dir = <<>> THEN [err |-> "ENOENT", fs |-> f, ino |-> ino]
    ELSE MkdirWalk(f, IF IsAbs(dir) THEN <<>> ELSE Split(wd), Split(dir), ino)

MkdirResult(m) == [err |-> m.err, notdir |-> FALSE, fs |-> m.fs, ino |-> m.ino]

\* EnsureDirExists once the parent directory dir has been looked up (st).
EnsureDir(f, dir, wd, ino, st) ==
    IF st.err = "ok"
    THEN IF Node(f, st.p).k # "dir"
         THEN [err |-> "ENOTDIR", notdir |-> TRUE, fs |-> f, ino |-> ino]
         ELSE [err |-> "ok", notdir |-> FALSE, fs |-> f, ino |-> ino]
    ELSE IF ~IsNotExist(st)
         THEN [err |-> st.err, notdir |-> FALSE, fs |-> f, ino |-> ino]
    ELSE MkdirResult(MkdirAll(f, dir, wd, ino))

\* pathutil.EnsureDirExists(path): make sure the parent directory of path exists.
\* notdir: the parent exists and is no directory.
EnsureDirExists(f, path, wd, ino) ==
    EnsureDir(f, Dir(path), wd, ino, Stat(f, Dir(path), wd))

\* errors.Is(err, &pathutil.ExistsButNotDirectoryError{}) on an EnsureDirExists result.
IsExistsButNotDirectory(e) == e.notdir

(***************************************************************************)
(* Link creation (internal/create/symlink, internal/create/hardlink).      *)
(* Both return err ("ok" on success), the filesystem they leave and the    *)
(* next unused inode.                                                      *)
(***************************************************************************)
RemovedParent(r, ino) == [err |-> r.err, fs |-> r.fs, ino |-> ino]

ForceParentOn(e, path, wd) ==
    IF e.err # "ok" /\ IsExistsButNotDirectory(e)
    THEN RemovedParent(Remove(e.fs, Dir(path), wd), e.ino)
    ELSE [err |-> "ok", fs |-> e.fs, ino |-> e.ino]

\* The force branch shared by both Create functions, after the removal of the
\* destination: a parent that exists and is no directory is removed.
ForceParent(f, path, wd, ino) == ForceParentOn(EnsureDirExists(f, path, wd, ino), path, wd)

RelOrAbs(r, absRealPath) == IF r.err \/ r.val = DOT THEN absRealPath ELSE r.val

\* The link target symlink.Create stores: relative to the directory of fake when
\* filepath.Rel can compute it, the absolute real otherwise.
LinkTarget(realPath, fakePath, wd) ==
    RelOrAbs(Rel(Dir(fakePath), Abs(realPath, wd)), Abs(realPath, wd))

Symlinked(l, ino) == [err |-> l.err, fs |-> l.fs, ino |-> IF l.err = "ok" THEN ino + 1 ELSE ino]

SymlinkIn(e, realPath, fakePath, wd) ==
    IF e.err # "ok" THEN [err |-> e.err, fs |-> e.fs, ino |-> e.ino]
    ELSE Symlinked(Symlink(e.fs, LinkTarget(realPath, fakePath, wd), fakePath, wd, e.ino),
                   e.ino)

\* symlink.Create, after the existence test of realPath and the force branch.
SymlinkTail(f, realPath, fakePath, wd, ino) ==
    SymlinkIn(EnsureDirExists(f, fakePath, wd, ino), realPath, fakePath, wd)

SymlinkAfterParent(fp, realPath, fakePath, wd) ==
    IF fp.err # "ok" THEN fp
    ELSE SymlinkTail(fp.fs, realPath, fakePath, wd, fp.ino)

SymlinkAfterRemove(rm, f, realPath, fakePath, wd, ino) ==
    IF rm.err # "ok" THEN [err |-> rm.err, fs |-> f, ino |-> ino]
    ELSE SymlinkAfterParent(ForceParent(rm.fs, fakePath, wd, ino), realPath, fakePath, wd)

\* The force branch of symlink.Create: os.Lstat on fake, os.Remove when it exists,
\* and the error of the removal returned.
SymlinkForce(f, realPath, fakePath, wd, ino) ==
    SymlinkAfterRemove(IF Lstat(f, fakePath, wd).err = "ok"
                       THEN Remove(f, fakePath, wd)
                       ELSE [err |-> "ok", fs |-> f],
                       f, realPath, fakePath, wd, ino)

\* A variant that runs the force branch before it looks at realPath.
SymlinkCreateForceFirst(f, realPath, fakePath, force, wd, ino) ==
    IF force THEN SymlinkForce(f, realPath, fakePath, wd, ino)
    ELSE IF Stat(f, realPath, wd).err # "ok"
    THEN [err |-> Stat(f, realPath, wd).err, fs |-> f, ino |-> ino]
    ELSE SymlinkTail(f, realPath, fakePath, wd, ino)

\* symlink.Create(realPath, fakePath, force)
SymlinkCreate(f, realPath, fakePath, force, wd, ino) ==
    IF Stat(f, realPath, wd).err # "ok"
    THEN [err |-> Stat(f, realPath, wd).err, fs |-> f, ino |-> ino]
    ELSE IF ~force THEN SymlinkTail(f, realPath, fakePath, wd, ino)
    ELSE SymlinkForce(f, realPath, fakePath, wd, ino)

Hardlinked(l, ino) == [err |-> l.err, fs |-> l.fs, ino |-> ino]

HardlinkIn(e, primPath, secoPath, wd) ==
    IF e.err # "ok" THEN [err |-> e.err, fs |-> e.fs, ino |-> e.ino]
    ELSE Hardlinked(Link(e.fs, primPath, secoPath, wd), e.ino)

\* hardlink.Create, after the existence test of primPath and the force branch.
HardlinkTail(f, primPath, secoPath, wd, ino) ==
    HardlinkIn(EnsureDirExists(f, secoPath, wd, ino), primPath, secoPath, wd)

HardlinkAfterParent(fp, primPath, secoPath, wd) ==
    IF fp.err # "ok" THEN fp
    ELSE HardlinkTail(fp.fs, primPath, secoPath, wd, fp.ino)

HardlinkAfterRemove(rm, primPath, secoPath, wd, ino) ==
    HardlinkAfterParent(ForceParent(rm.fs, secoPath, wd, ino), primPath, secoPath, wd)

\* The force branch of hardlink.Create: the destination is looked up with os.Stat,
\* and a failed removal is logged and not returned.
HardlinkForce(f, primPath, secoPath, wd, ino) ==
    HardlinkAfterRemove(IF Stat(f, secoPath, wd).err = "ok"
                        THEN Remove(f, secoPath, wd)
                        ELSE [err |-> "ok", fs |-> f],
                        primPath, secoPath, wd, ino)

\* hardlink.Create(primPath, secoPath, force)
HardlinkCreate(f, primPath, secoPath, force, wd, ino) ==
    IF Stat(f, primPath, wd).err # "ok"
    THEN [err |-> Stat(f, primPath, wd).err, fs |-> f, ino |-> ino]
    ELSE IF ~force THEN HardlinkTail(f, primPath, secoPath, wd, ino)
    ELSE HardlinkForce(f, primPath, secoPath, wd, ino)

(***************************************************************************)
(* The validator (cmd/check.go).  rlOK says whether os.Readlink succeeds   *)
(* on a path that os.Lstat has just reported to be a symbolic link.        *)
(***************************************************************************)
Verdict(kind) == [valid |-> kind = "", kind |-> kind]

StatTag(r, missing, other) == IF IsNotExist(r) THEN missing ELSE other

\* A variant that looks at the expected real before the link's target.
CompareTargetsExpectedFirst(f, targetAbs, expectedAbs, wd) ==
    LET targetInfo == Stat(f, targetAbs, wd)
        expectedInfo == Stat(f, expectedAbs, wd)
    IN IF expectedInfo.err # "ok"
       THEN Verdict(StatTag(expectedInfo, "EXPECTED_MISSING", "EXPECTED_ACCESS_FAIL"))
       ELSE IF targetInfo.err # "ok"
            THEN Verdict(StatTag(targetInfo, "TARGET_MISSING", "TARGET_ACCESS_FAIL"))
       ELSE IF ~SameFile(f, targetInfo, expectedInfo) THEN Verdict("TARGET_MISMATCH")
       ELSE Verdict("")

\* The stat of the link's resolved target, of the expected real, and their comparison.
CompareTargets(f, targetAbs, expectedAbs, wd) ==
    LET targetInfo == Stat(f, targetAbs, wd)
        expectedInfo == Stat(f, expectedAbs, wd)
    IN IF targetInfo.err # "ok"
       THEN Verdict(StatTag(targetInfo, "TARGET_MISSING", "TARGET_ACCESS_FAIL"))
       ELSE IF expectedInfo.err # "ok"
            THEN Verdict(StatTag(expectedInfo, "EXPECTED_MISSING", "EXPECTED_ACCESS_FAIL"))
       ELSE IF ~SameFile(f, targetInfo, expectedInfo) THEN Verdict("TARGET_MISMATCH")
       ELSE Verdict("")

\* The absolute form of the target string read from the link at expandedFake.
TargetAbs(target, expandedFake) ==
    IF IsAbs(target) THEN target ELSE Join(Dir(expandedFake), target)

\* A variant that leaves a relative real to the working directory of the process.
ExpectedAbsOfCwd(real, basePath, homeOK) ==
    LET n == NormalizePath(real, homeOK)
    IN IF n.err THEN real ELSE n.val

\* The absolute form of the recorded real.
ExpectedAbs(real, basePath, homeOK) ==
    LET e == IF IsAbs(real) THEN real ELSE Join(basePath, real)
        n == NormalizePath(e, homeOK)
    IN IF n.err THEN e ELSE n.val

\* checkSymlinkValid(real, fake, basePath)
checkSymlinkValid(f, real, fake, basePath, wd, homeOK, rlOK) ==
    LET ef == NormalizePath(fake, homeOK)
        fakeInfo == Lstat(f, ef.val, wd)
    IN IF ef.err THEN Verdict("PATH_EXPAND_FAIL")
       ELSE IF fakeInfo.err # "ok"
            THEN Verdict(StatTag(fakeInfo, "LINK_MISSING", "LINK_ACCESS_FAIL"))
       ELSE IF Node(f, fakeInfo.p).k # "link" THEN Verdict("NOT_SYMLINK")
       ELSE IF ~rlOK THEN Verdict("READLINK_FAIL")
       ELSE CompareTargets(f, TargetAbs(Node(f, fakeInfo.p).tgt, ef.val),
                           ExpectedAbs(real, basePath, homeOK), wd)

\* A variant that looks at seco before prim.
checkHardlinkValidSecoFirst(f, prim, seco, basePath, wd) ==
    LET expandedPrim == IF IsAbs(prim) THEN prim ELSE Join(basePath, prim)
        primInfo == Stat(f, expandedPrim, wd)
        secoInfo == Stat(f, seco, wd)
    IN IF secoInfo.err # "ok"
       THEN Verdict(StatTag(secoInfo, "SECO_MISSING", "SECO_ACCESS_FAIL"))
       ELSE IF primInfo.err # "ok"
            THEN Verdict(StatTag(primInfo, "PRIM_MISSING", "PRIM_ACCESS_FAIL"))
       ELSE IF ~SameFile(f, primInfo, secoInfo) THEN Verdict("NOT_SAME_FILE")
       ELSE Verdict("")

\* checkHardlinkValid(prim, seco, basePath)
checkHardlinkValid(f, prim, seco, basePath, wd) ==
    LET expandedPrim == IF IsAbs(prim) THEN prim ELSE Join(basePath, prim)
        primInfo == Stat(f, expandedPrim, wd)
        secoInfo == Stat(f, seco, wd)
    IN IF primInfo.err # "ok"
       THEN Verdict(StatTag(primInfo, "PRIM_MISSING", "PRIM_ACCESS_FAIL"))
       ELSE IF secoInfo.err # "ok"
            THEN Verdict(StatTag(secoInfo, "SECO_MISSING", "SECO_ACCESS_FAIL"))
       ELSE IF ~SameFile(f, primInfo, secoInfo) THEN Verdict("NOT_SAME_FILE")
       ELSE Verdict("")

\* The base path performCheck hands to the validators for an origin-directory key.
BasePath(path, homeOK) ==
    LET n == NormalizePath(path, homeOK) IN IF n.err THEN path ELSE n.val

(***************************************************************************)
(* The registry store (internal/store).  RootConfig is a four-level map:   *)
(* platform -> device -> link type -> origin directory -> list of entries. *)
(***************************************************************************)
GOOS == "linux"

EmptyMap == <<>>

\* A nil map (the value json.Unmarshal leaves for the document null): it reads
\* as an empty map, is written as null, and an assignment to it panics.  It is
\* kept as a map whose only key is one no registry uses.
NilMap == [x \in {"<nil>"} |-> EmptyMap]

\* Reading a map at a key it does not hold yields the zero value.
Get(m, k) == IF k \in DOMAIN m THEN m[k] ELSE EmptyMap

Put(m, k, v) == [x \in DOMAIN m \cup {k} |-> IF x = k THEN v ELSE m[x]]

\* A variant that stores the new entry in place of the list.
AddRecordReplace(data, device, linkType, parentPath, fields) ==
    LET dev == IF device = "" THEN "all" ELSE device
        dg == Get(data, GOOS)
        tg == Get(dg, dev)
        pg == Get(tg, linkType)
    IN Put(data, GOOS,
           Put(dg, dev, Put(tg, linkType, Put(pg, foldPath(parentPath), <<fields>>))))

\* Manager.AddRecord(device, linkType, parentPath, fields) on the map data.
AddRecord(data, device, linkType, parentPath, fields) ==
    LET dev == IF device = "" THEN "all" ELSE device
        foldedParent == foldPath(parentPath)
        processedEntry == [k \in DOMAIN fields |-> foldPath(fields[k])]
        dg == Get(data, GOOS)
        tg == Get(dg, dev)
        pg == Get(tg, linkType)
    IN Put(data, GOOS,
           Put(dg, dev,
               Put(tg, linkType,
                   Put(pg, foldedParent, Append(Get(pg, foldedParent), processedEntry)))))

(***************************************************************************)
(* Persistence.  json.MarshalIndent writes the keys of a map in sorted     *)
(* order and coerces every string to valid UTF-8: a byte that is not valid *)
(* UTF-8 is written as U+FFFD.  json.Unmarshal keeps, for a key that       *)
(* occurs twice in an object, the value decoded last.  The three outer     *)
(* levels (platform, device, link type) hold keys that are valid UTF-8 and *)
(* distinct as written, so their objects are kept as maps; the members of  *)
(* the origin-directory level are kept as the sequence the text holds.     *)
(***************************************************************************)
BAD == "B"     \* stands for a byte that is not valid UTF-8 (a file name may hold one)
REPL == "R"    \* stands for U+FFFD, the replacement character

\* The characters of the model in byte order.
CharOrder == <<".", "/", "2", "a", "b", "d", "h", "k", "l", "t", "w", "x", "~", REPL, BAD>>

Rank(c) == CHOOSE i \in 1..Len(CharOrder) : CharOrder[i] = c

RECURSIVE LexLess(_, _)
LexLess(a, b) ==
    IF b = <<>> THEN FALSE
    ELSE IF a = <<>> THEN TRUE
    ELSE IF Head(a) = Head(b) THEN LexLess(Tail(a), Tail(b))
    ELSE Rank(Head(a)) < Rank(Head(b))

RECURSIVE SortKeys(_)
SortKeys(S) ==
    IF S = {} THEN <<>>
    ELSE LET m == CHOOSE x \in S : \A y \in S \ {x} : LexLess(x, y)
         IN <<m>> \o SortKeys(S \ {m})

EncodeString(str) == [i \in 1..Len(str) |-> IF str[i] = BAD THEN REPL ELSE str[i]]

MarshalEntries(es) ==
    [i \in 1..Len(es) |-> [k \in DOMAIN es[i] |-> EncodeString(es[i][k])]]

MarshalPathGroup(pg) ==
    LET ks == SortKeys(DOMAIN pg)
    IN [i \in 1..Len(ks) |-> <<EncodeString(ks[i]), MarshalEntries(pg[ks[i]])>>]

\* json.MarshalIndent(m.Data, "", "    ")
MarshalIndent(data) ==
    [pl \in DOMAIN data |->
        [dv \in DOMAIN data[pl] |->
            [ty \in DOMAIN data[pl][dv] |-> MarshalPathGroup(data[pl][dv][ty])]]]

RECURSIVE UnmarshalPathGroup(_, _)
UnmarshalPathGroup(members, acc) ==
    IF members = <<>> THEN acc
    ELSE UnmarshalPathGroup(Tail(members), Put(acc, Head(members)[1], Head(members)[2]))

\* json.Unmarshal(b, &data) on a well-formed document
Unmarshal(doc) ==
    [pl \in DOMAIN doc |->
        [dv \in DOMAIN doc[pl] |->
            [ty \in DOMAIN doc[pl][dv] |-> UnmarshalPathGroup(doc[pl][dv][ty], EmptyMap)]]]

\* The registry file: absent, or a file of some kind of content.
NoFile == [kind |-> "absent", doc |-> EmptyMap]
EmptyFile == [kind |-> "empty", doc |-> EmptyMap]
JsonFile(doc) == [kind |-> "json", doc |-> doc]
PartialFile(doc) == [kind |-> "partial", doc |-> doc]

\* Manager.Save(filePath); wOK says whether os.WriteFile can open the file.
Save(data, file, wOK) ==
    IF wOK THEN [err |-> FALSE, file |-> JsonFile(MarshalIndent(data))]
    ELSE [err |-> TRUE, file |-> file]

\* LoadFromFile(filePath)
LoadFromFile(file) ==
    IF file.kind = "absent" THEN [err |-> "notexist", data |-> EmptyMap]
    ELSE IF file.kind = "empty" THEN [err |-> "", data |-> EmptyMap]
    ELSE IF file.kind = "json" THEN [err |-> "", data |-> Unmarshal(file.doc)]
    ELSE [err |-> "syntax", data |-> EmptyMap]

\* A variant that starts every process with an empty registry.
InitStoreFresh(file) == [nil |-> FALSE, Data |-> EmptyMap]

\* A variant that takes a missing file for a load error.
InitStoreStrict(file) ==
    IF file.kind = "absent" THEN [nil |-> TRUE, Data |-> EmptyMap]
    ELSE IF file.kind = "partial" THEN [nil |-> TRUE, Data |-> EmptyMap]
    ELSE IF file.kind = "empty" THEN [nil |-> FALSE, Data |-> EmptyMap]
    ELSE [nil |-> FALSE, Data |-> Unmarshal(file.doc)]

\* InitStore(storePath): the manager the process holds afterwards (nil on a load
\* error other than a missing file).
InitStore(file) ==
    LET l == LoadFromFile(file)
    IN IF l.err = "" \/ l.err = "notexist"
       THEN [nil |-> FALSE, Data |-> l.data]
       ELSE [nil |-> TRUE, Data |-> EmptyMap]

(***************************************************************************)
(* The check pass (performCheck).  Go ranges over the maps in an order it  *)
(* does not specify; ord is the order of one pass over the coordinates     *)
(* <<device, link type, origin directory>> that pass the filters.          *)
(***************************************************************************)
RECURSIVE Contains(_, _)
\* strings.Contains
Contains(str, sub) ==
    IF HasPrefix(str, sub) THEN TRUE
    ELSE IF str = <<>> THEN FALSE
    ELSE Contains(Tail(str), sub)

GetField(e, k) == IF k \in DOMAIN e THEN e[k] ELSE <<>>

\* The device test of performCheck.
DevicePasses(device, filter) == filter = "" \/ device = filter

\* The link-type test of performCheck, after both-false has been turned into both-true.
TypePasses(linkType, options) ==
    LET both == ~options.CheckSymlink /\ ~options.CheckHardlink
        sym == both \/ options.CheckSymlink
        hard == both \/ options.CheckHardlink
    IN ~((linkType = "symlink" /\ ~sym) \/ (linkType = "hardlink" /\ ~hard))

DirPasses(path, options) == options.CheckDir = <<>> \/ Contains(path, options.CheckDir)

\* The coordinates of the current platform that one pass visits.
Coords(data, options) ==
    LET pd == Get(data, GOOS)
    IN { c \in UNION { UNION { { <<dv, ty, pa>> : pa \in DOMAIN pd[dv][ty] }
                               : ty \in DOMAIN pd[dv] } : dv \in DOMAIN pd } :
            /\ DevicePasses(c[1], options.DeviceFilter)
            /\ TypePasses(c[2], options)
            /\ DirPasses(c[3], options) }

\* The orders a nested range over the three map levels can produce.
Orders(C) ==
    LET n == Cardinality(C)
    IN { o \in [1..n -> C] :
            /\ \A i, j \in 1..n : i # j => o[i] # o[j]
            /\ \A i, j, k \in 1..n :
                  i < j /\ j < k =>
                     /\ (o[i][1] = o[k][1] => o[j][1] = o[i][1])
                     /\ (o[i][1] = o[k][1] /\ o[i][2] = o[k][2] => o[j][2] = o[i][2]) }

\* The result of validating one entry.
CheckEntry(f, c, entry, wd, homeOK, rlOK) ==
    LET basePath == BasePath(c[3], homeOK)
        v == IF c[2] = "symlink"
             THEN checkSymlinkValid(f, GetField(entry, "real"), GetField(entry, "fake"),
                                    basePath, wd, homeOK, rlOK)
             ELSE IF c[2] = "hardlink"
             THEN checkHardlinkValid(f, GetField(entry, "prim"), GetField(entry, "seco"),
                                     basePath, wd)
             ELSE [valid |-> FALSE, kind |-> ""]
    IN [Type |-> c[2], Device |-> c[1], Path |-> c[3], BasePath |-> <<>>,
        Real |-> IF c[2] = "symlink" THEN GetField(entry, "real") ELSE <<>>,
        Fake |-> IF c[2] = "symlink" THEN GetField(entry, "fake") ELSE <<>>,
        Prim |-> IF c[2] = "hardlink" THEN GetField(entry, "prim") ELSE <<>>,
        Seco |-> IF c[2] = "hardlink" THEN GetField(entry, "seco") ELSE <<>>,
        Valid |-> v.valid, ErrorType |-> v.kind]

RECURSIVE CheckCoords(_, _, _, _, _, _)
CheckCoords(data, f, ord, wd, homeOK, rlOK) ==
    IF ord = <<>> THEN <<>>
    ELSE LET c == Head(ord)
             entries == data[GOOS][c[1]][c[2]][c[3]]
         IN [i \in 1..Len(entries) |-> CheckEntry(f, c, entries[i], wd, homeOK, rlOK)]
            \o CheckCoords(data, f, Tail(ord), wd, homeOK, rlOK)

\* performCheck(options): the results of one pass made in the order ord.
performCheck(data, options, f, ord, wd, homeOK, rlOK) ==
    CheckCoords(data, f, ord, wd, homeOK, rlOK)

(***************************************************************************)
(* The create commands (cmd/symlink.go, cmd/hardlink.go).  m is the        *)
(* manager the process holds (store.GlobalManager), in the inputs of the   *)
(* run: the flags, the working directory and the environment.              *)
(***************************************************************************)
Saved(d, sv) ==
    [mgr |-> [nil |-> FALSE, Data |-> d], file |-> sv.file,
     saveErr |-> sv.err, recorded |-> TRUE, panic |-> FALSE]

Recorded(d, file, wOK) == Saved(d, Save(d, file, wOK))

\* AddRecord assigns m.Data[platform] when that level is missing: on a nil
\* m.Data the assignment panics and the process ends there.
RecordIn(mgr, file, linkType, fields, in) ==
    IF mgr.nil
    THEN [mgr |-> mgr, file |-> file, saveErr |-> FALSE, recorded |-> FALSE, panic |-> FALSE]
    ELSE IF mgr.Data = NilMap
    THEN [mgr |-> mgr, file |-> file, saveErr |-> FALSE, recorded |-> FALSE, panic |-> TRUE]
    ELSE Recorded(AddRecord(mgr.Data, in.device, linkType, in.wd, fields), file, in.wOK)

\* The part of both commands after a successful Create: record and persist.
Record(m, file, linkType, fields, in) ==
    RecordIn(IF m.nil THEN InitStore(file) ELSE m, file, linkType, fields, in)

Unrecorded(m, f, ino, file, error, src, dst) ==
    [Success |-> FALSE, Error |-> error, fs |-> f, ino |-> ino, mgr |-> m, file |-> file,
     saveErr |-> FALSE, recorded |-> FALSE, panic |-> FALSE, src |-> src, dst |-> dst]

Succeeded(c, r, src, dst) ==
    [Success |-> TRUE, Error |-> "", fs |-> c.fs, ino |-> c.ino,
     mgr |-> r.mgr, file |-> r.file, saveErr |-> r.saveErr, recorded |-> r.recorded,
     panic |-> r.panic, src |-> src, dst |-> dst]

\* Symlink(cmd, args) after symlink.Create has returned c.
SymlinkCreated(c, m, file, real, fake, in) ==
    IF c.err # "ok" THEN Unrecorded(m, c.fs, c.ino, file, c.err, real, fake)
    ELSE Succeeded(c, Record(m, file, "symlink",
                             [real |-> real,
                              fake |-> ToAbsolute(fake, in.wd, in.homeOK).val], in),
                   real, fake)

SymlinkNormalized(normalizedReal, normalizedFake, m, f, ino, file, in) ==
    IF normalizedReal.err \/ normalizedFake.err
    THEN Unrecorded(m, f, ino, file, "normalize", <<>>, <<>>)
    ELSE SymlinkCreated(SymlinkCreate(f, normalizedReal.val, normalizedFake.val,
                                      in.force, in.wd, ino),
                        m, file, normalizedReal.val, normalizedFake.val, in)

\* Symlink(cmd, args)
SymlinkRun(m, f, ino, file, in) ==
    SymlinkNormalized(NormalizePath(in.src, in.homeOK), NormalizePath(in.dst, in.homeOK),
                      m, f, ino, file, in)

\* Hardlink(cmd, args) after hardlink.Create has returned c.
HardlinkCreated(c, m, file, prim, seco, in) ==
    IF c.err # "ok" THEN Unrecorded(m, c.fs, c.ino, file, c.err, prim, seco)
    ELSE Succeeded(c, Record(m, file, "hardlink",
                             [prim |-> prim,
                              seco |-> ToAbsolute(seco, in.wd, in.homeOK).val], in),
                   prim, seco)

HardlinkNormalized(normalizedPrim, normalizedSeco, m, f, ino, file, in) ==
    IF normalizedPrim.err \/ normalizedSeco.err
    THEN Unrecorded(m, f, ino, file, "normalize", <<>>, <<>>)
    ELSE HardlinkCreated(HardlinkCreate(f, normalizedPrim.val, normalizedSeco.val,
                                        in.force, in.wd, ino),
                         m, file, normalizedPrim.val, normalizedSeco.val, in)

\* Hardlink(cmd, args)
HardlinkRun(m, f, ino, file, in) ==
    HardlinkNormalized(NormalizePath(in.src, in.homeOK), NormalizePath(in.dst, in.homeOK),
                       m, f, ino, file, in)

(***************************************************************************)
(* The link life cycle: create commands, check commands, and what the      *)
(* user does to the filesystem between them.  Every command is a process   *)
(* of its own: it loads the registry file, works, and saves.  A check      *)
(* writes neither the filesystem nor the registry file, so no later        *)
(* command can tell that it ran: runs are explored with the check as their *)
(* last step.                                                              *)
(***************************************************************************)
RelA == <<"a">>
HomeA == <<"~", "/", "a">>
TmpA == <<"/", "t", "/", "a">>
RelL == <<"l">>
HomeL == <<"~", "/", "l">>
TmpL == <<"/", "t", "/", "l">>
WdHome == <<"/", "h", "/", "w">>
WdTmp == <<"/", "t">>

Sources == {RelA, HomeA, TmpA}
Dests == {RelL, HomeL, TmpL}
Wds == {WdHome, WdTmp}
EnvPaths == {TmpA, TmpL, WdTmp}

\* The directories and files present at the start.
Nodes0 ==
    << <<Home, "dir">>, <<WdHome, "dir">>, <<WdTmp, "dir">>,
       <<Home \o <<"/", "a">>, "file">>, <<WdHome \o <<"/", "a">>, "file">>,
       <<TmpA, "file">> >>

F0 ==
    [pp \in { Split(Nodes0[i][1]) : i \in DOMAIN Nodes0 } |->
        LET i == CHOOSE j \in DOMAIN Nodes0 : Split(Nodes0[j][1]) = pp
        IN [k |-> Nodes0[i][2], ino |-> i, tgt |-> <<>>]]

MaxCmds == 2
MaxEnv == 1

NoManager == [nil |-> TRUE, Data |-> EmptyMap]

NoLast ==
    [op |-> "init", kind |-> "", force |-> FALSE, Success |-> FALSE, Error |-> "",
     src |-> <<>>, dst |-> <<>>, wd |-> <<>>, homeOK |-> TRUE, rlOK |-> TRUE,
     pre |-> <<>>, mgr |-> NoManager, recorded |-> FALSE, saveErr |-> FALSE,
     panic |-> FALSE, exit |-> 0, results |-> <<>>, filter |-> "", loaded |-> [err |-> "", data |-> EmptyMap]]

NoSession == [pc |-> "none"]

CreateInputs ==
    [src : Sources, dst : Dests, force : BOOLEAN, device : {""}, wd : Wds,
     homeOK : {TRUE}, wOK : {TRUE}]

\* A process runs in a working directory that exists.
IsDir(f, p) == LET st == Stat(f, p, p) IN st.err = "ok" /\ Node(f, st.p).k = "dir"

\* A variant in which only a panic gives a non-zero exit status.
ExitStatusOfPanic(kind, out) == IF out.panic THEN 2 ELSE 0

\* The exit status of the process: 2 after a panic, 1 when the command
\* function returns an error (rootCmd.Execute fails and Execute calls os.Exit(1)).
\* Symlink returns an error whenever the result is no success; Hardlink returns
\* nil when the normalization of a path fails.
ExitStatus(kind, out) ==
    IF out.panic THEN 2
    ELSE IF out.Success THEN 0
    ELSE IF kind = "hardlink" /\ out.Error = "normalize" THEN 0
    ELSE 1

AfterCreate(kind, in, out) ==
    [NoLast EXCEPT !.op = "create", !.kind = kind, !.force = in.force,
                   !.Success = out.Success, !.Error = out.Error,
                   !.src = out.src, !.dst = out.dst, !.wd = in.wd, !.homeOK = in.homeOK,
                   !.pre = fs, !.mgr = out.mgr, !.recorded = out.recorded,
                   !.saveErr = out.saveErr, !.panic = out.panic,
                   !.exit = ExitStatus(kind, out), !.loaded = LoadFromFile(disk)]

\* The state a create command leaves when its run returns out.
Ran(kind, in, out) ==
    /\ fs' = out.fs
    /\ nextIno' = out.ino
    /\ disk' = out.file
    /\ last' = AfterCreate(kind, in, out)
    /\ steps' = [steps EXCEPT !.cmd = @ + 1]
    /\ UNCHANGED sess

\* flk create symlink --real src --fake dst [--force]
CmdSymlink(in) ==
    /\ steps.cmd < MaxCmds
    /\ last.op # "check"
    /\ IsDir(fs, in.wd)
    /\ Ran("symlink", in, SymlinkRun(InitStore(disk), fs, nextIno, disk, in))

\* flk create hardlink --prim src --seco dst [--force]
CmdHardlink(in) ==
    /\ steps.cmd < MaxCmds
    /\ last.op # "check"
    /\ IsDir(fs, in.wd)
    /\ Ran("hardlink", in, HardlinkRun(InitStore(disk), fs, nextIno, disk, in))

AllOptions == [DeviceFilter |-> "", CheckSymlink |-> FALSE, CheckHardlink |-> FALSE,
               CheckDir |-> <<>>]

\* RunCheck in a process whose manager is m: performCheck reads
\* GlobalManager.Data, which panics on the nil manager a failed InitStore leaves.
Checked(m, wd, homeOK, rlOK) ==
    IF m.nil
    THEN last' = [NoLast EXCEPT !.op = "check", !.wd = wd, !.homeOK = homeOK,
                                !.rlOK = rlOK, !.mgr = m, !.panic = TRUE, !.exit = 2]
    ELSE \E ord \in Orders(Coords(m.Data, AllOptions)) :
            last' = [NoLast EXCEPT
                        !.op = "check", !.wd = wd, !.homeOK = homeOK, !.rlOK = rlOK,
                        !.mgr = m,
                        !.results = performCheck(m.Data, AllOptions, fs, ord, wd,
                                                 homeOK, rlOK)]

\* A variant that writes the registry back after the pass.
CmdCheckSaving(wd, homeOK, rlOK) ==
    /\ last.op # "check"
    /\ IsDir(fs, wd)
    /\ Checked(InitStore(disk), wd, homeOK, rlOK)
    /\ disk' = Save(InitStore(disk).Data, disk, TRUE).file
    /\ UNCHANGED <<fs, nextIno, steps, sess>>

\* flk check, run in directory wd
CmdCheck(wd, homeOK, rlOK) ==
    /\ last.op # "check"
    /\ IsDir(fs, wd)
    /\ Checked(InitStore(disk), wd, homeOK, rlOK)
    /\ UNCHANGED <<fs, nextIno, disk, steps, sess>>

\* What is at physical path pp and below it.
Subtree(f, pp) == { q \in DOMAIN f : Len(q) >= Len(pp) /\ SubSeq(q, 1, Len(pp)) = pp }

Prune(f, pp) == [q \in DOMAIN f \ Subtree(f, pp) |-> f[q]]

\* The user removes what is at p (rm -r p).
EnvRemove(p) ==
    /\ steps.env < MaxEnv
    /\ last.op # "check"
    /\ LET l == Lstat(fs, p, WdTmp)
       IN /\ l.err = "ok"
          /\ fs' = Prune(fs, l.p)
    /\ last' = [NoLast EXCEPT !.op = "env"]
    /\ steps' = [steps EXCEPT !.env = @ + 1]
    /\ UNCHANGED <<nextIno, disk, sess>>

\* The user puts a new regular file at p, in place of what was there.
EnvWriteFile(p) ==
    /\ steps.env < MaxEnv
    /\ last.op # "check"
    /\ LET s == Slot(fs, p, WdTmp)
       IN /\ s.err = "ok"
          /\ fs' = With(Prune(fs, s.p), s.p, [k |-> "file", ino |-> nextIno, tgt |-> <<>>])
    /\ nextIno' = nextIno + 1
    /\ last' = [NoLast EXCEPT !.op = "env"]
    /\ steps' = [steps EXCEPT !.env = @ + 1]
    /\ UNCHANGED <<disk, sess>>

Init ==
    /\ fs = F0
    /\ nextIno = Len(Nodes0) + 1
    /\ disk = NoFile
    /\ last = NoLast
    /\ steps = [cmd |-> 0, env |-> 0]
    /\ sess = NoSession

Next ==
    \/ \E in \in CreateInputs : CmdSymlink(in)
    \/ \E in \in CreateInputs : CmdHardlink(in)
    \/ \E homeOK \in BOOLEAN, rlOK \in BOOLEAN : CmdCheck(WdHome, homeOK, rlOK)
    \/ \E p \in EnvPaths : EnvRemove(p)
    \/ \E p \in EnvPaths : EnvWriteFile(p)

Spec == Init /\ [][Next]_vars

(***************************************************************************)
(* Properties of the link life cycle                                       *)
(***************************************************************************)
\* The last command was a create command of this kind that made its link and
\* recorded it.
Created(kind) ==
    last.op = "create" /\ last.kind = kind /\ last.Success /\ last.recorded

\* The origin-directory key and the entry the last create command recorded.
RecordedOrigin == foldPath(last.wd)

RecordedEntry ==
    LET es == last.mgr.Data[GOOS]["all"][last.kind][RecordedOrigin] IN es[Len(es)]

\* C1: after a successful create symlink, validating the entry just recorded
\* (stored real, stored fake, normalized origin directory) on the filesystem
\* the command left yields valid with an empty error kind.
C1_SymlinkCreateThenValid ==
    Created("symlink") =>
        checkSymlinkValid(fs, RecordedEntry.real, RecordedEntry.fake,
                          BasePath(RecordedOrigin, last.homeOK), last.wd,
                          last.homeOK, TRUE) = Verdict("")

\* A create symlink has succeeded whose real lies under the home directory.
C1_Witness ==
    Created("symlink") /\ HasPrefix(Abs(last.src, last.wd), Home \o <<SEP>>)

\* C5: after a successful create hardlink, the recorded {prim, seco} entry
\* validates as valid against the recorded origin directory, also when prim or
\* seco lies under the home directory and is stored with a leading ~.
C5_HardlinkCreateThenValid ==
    Created("hardlink") =>
        checkHardlinkValid(fs, RecordedEntry.prim, RecordedEntry.seco,
                           BasePath(RecordedOrigin, last.homeOK), last.wd) = Verdict("")

\* A create hardlink has succeeded whose seco is stored with a leading ~.
C5_Witness ==
    Created("hardlink") /\ HasPrefix(RecordedEntry.seco, <<"~">>)

\* The steps of symlink validation in the order C3 fixes, each with the tag it
\* reports; the result is the tag of the first step that fails.
C3_FirstFailure(r, wd, homeOK, rlOK) ==
    LET fake == NormalizePath(r.Fake, homeOK)
        link == Lstat(fs, fake.val, wd)
        target == Stat(fs, TargetAbs(Node(fs, link.p).tgt, fake.val), wd)
        expected == Stat(fs, ExpectedAbs(r.Real, BasePath(r.Path, homeOK), homeOK), wd)
    IN CASE fake.err -> "PATH_EXPAND_FAIL"
         [] link.err = "ENOENT" -> "LINK_MISSING"
         [] link.err # "ok" -> "LINK_ACCESS_FAIL"
         [] Node(fs, link.p).k # "link" -> "NOT_SYMLINK"
         [] ~rlOK -> "READLINK_FAIL"
         [] target.err = "ENOENT" -> "TARGET_MISSING"
         [] target.err # "ok" -> "TARGET_ACCESS_FAIL"
         [] expected.err = "ENOENT" -> "EXPECTED_MISSING"
         [] expected.err # "ok" -> "EXPECTED_ACCESS_FAIL"
         [] Node(fs, target.p).ino # Node(fs, expected.p).ino -> "TARGET_MISMATCH"
         [] OTHER -> ""

\* C3: every symlink result of a check carries the tag of the first failing
\* step in the order PATH_EXPAND_FAIL, LINK_MISSING/LINK_ACCESS_FAIL,
\* NOT_SYMLINK, READLINK_FAIL, TARGET_MISSING/TARGET_ACCESS_FAIL,
\* EXPECTED_MISSING/EXPECTED_ACCESS_FAIL, TARGET_MISMATCH, and is valid only
\* when no step fails.
C3_SymlinkStepOrder ==
    last.op = "check" =>
        \A i \in DOMAIN last.results :
            LET r == last.results[i]
            IN r.Type = "symlink" =>
                  /\ r.ErrorType = C3_FirstFailure(r, last.wd, last.homeOK, last.rlOK)
                  /\ r.Valid = (r.ErrorType = "")

\* A check has reported TARGET_MISSING for a link that is still in place while
\* the file it was recorded for is gone.
C3_Witness ==
    /\ last.op = "check"
    /\ \E i \in DOMAIN last.results :
          LET r == last.results[i]
          IN /\ r.Type = "symlink"
             /\ r.ErrorType = "TARGET_MISSING"
             /\ ~r.Valid
             /\ Stat(fs, ExpectedAbs(r.Real, BasePath(r.Path, last.homeOK), last.homeOK),
                     last.wd).err = "ENOENT"

\* The steps of hardlink validation in the order C4 fixes.
C4_FirstFailure(r, wd, homeOK) ==
    LET prim == Stat(fs, IF IsAbs(r.Prim) THEN r.Prim
                         ELSE Join(BasePath(r.Path, homeOK), r.Prim), wd)
        seco == Stat(fs, r.Seco, wd)
    IN CASE prim.err = "ENOENT" -> "PRIM_MISSING"
         [] prim.err # "ok" -> "PRIM_ACCESS_FAIL"
         [] seco.err = "ENOENT" -> "SECO_MISSING"
         [] seco.err # "ok" -> "SECO_ACCESS_FAIL"
         [] Node(fs, prim.p).ino # Node(fs, seco.p).ino -> "NOT_SAME_FILE"
         [] OTHER -> ""

\* C4: every hardlink result of a check carries the tag of the first failing
\* step in the order PRIM_MISSING/PRIM_ACCESS_FAIL (prim resolved against the
\* origin directory when relative), SECO_MISSING/SECO_ACCESS_FAIL,
\* NOT_SAME_FILE, and is valid only when both exist and are the same file.
C4_HardlinkStepOrder ==
    last.op = "check" =>
        \A i \in DOMAIN last.results :
            LET r == last.results[i]
            IN r.Type = "hardlink" =>
                  /\ r.ErrorType = C4_FirstFailure(r, last.wd, last.homeOK)
                  /\ r.Valid = (r.ErrorType = "")

\* A check has reported PRIM_MISSING for an entry whose prim and seco are both
\* gone.
C4_Witness ==
    /\ last.op = "check"
    /\ \E i \in DOMAIN last.results :
          LET r == last.results[i]
          IN /\ r.Type = "hardlink"
             /\ IsAbs(r.Prim) /\ IsAbs(r.Seco)
             /\ r.ErrorType = "PRIM_MISSING"
             /\ Stat(fs, r.Seco, last.wd).err = "ENOENT"

\* The last command was a create against a destination that existed, with a
\* source that existed.
ExistingDest ==
    /\ last.op = "create"
    /\ Stat(last.pre, last.src, last.wd).err = "ok"
    /\ Lstat(last.pre, last.dst, last.wd).err = "ok"

\* The destination as the create command found it and as it left it.
DestBefore == Node(last.pre, Lstat(last.pre, last.dst, last.wd).p)

DestAfter == LET l == Lstat(fs, last.dst, last.wd)
             IN IF l.err = "ok" THEN Node(fs, l.p) ELSE RootNode

\* The validator's verdict on the link the last create command was asked for.
DestVerdict ==
    IF last.kind = "symlink"
    THEN checkSymlinkValid(fs, last.src, last.dst, last.wd, last.wd, last.homeOK, TRUE)
    ELSE checkHardlinkValid(fs, last.src, Abs(last.dst, last.wd), last.wd, last.wd)

\* C6: without force a create against an existing destination fails and
\* leaves the destination as it was; with force it succeeds and the
\* destination then is a link to the source that passes validation.
C6_ForceSemantics ==
    ExistingDest =>
        IF last.force
        THEN last.Success /\ DestVerdict = Verdict("")
        ELSE ~last.Success /\ DestAfter = DestBefore

\* A forced create has run against an existing destination.
C6_Witness == ExistingDest /\ last.force

(***************************************************************************)
(* The registry store on its own: a manager in memory that AddRecord       *)
(* fills, Save, LoadFromFile, and a check with a device filter.            *)
(***************************************************************************)
BadDir == <<"/", BAD>>

Devices == {"", "laptop", "desk"}
LinkTypes == {"symlink", "hardlink"}
Parents == {WdTmp, BadDir}

FieldsOf(linkType) ==
    IF linkType = "symlink" THEN [real |-> RelA, fake |-> TmpL]
    ELSE [prim |-> TmpA, seco |-> TmpL]

MaxRecords == 2
MaxSaves == 2

StoreInit ==
    /\ fs = F0
    /\ nextIno = Len(Nodes0) + 1
    /\ disk = NoFile
    /\ last = NoLast
    /\ steps = [cmd |-> 0, env |-> 0]
    /\ sess = [pc |-> "store", Data |-> EmptyMap, n |-> 0]

\* m.AddRecord(device, linkType, parentPath, fields) on the manager in memory
StAddRecord(device, linkType, parentPath) ==
    /\ sess.n < MaxRecords
    /\ sess' = [sess EXCEPT !.Data = AddRecord(@, device, linkType, parentPath,
                                               FieldsOf(linkType)),
                            !.n = @ + 1]
    /\ last' = [NoLast EXCEPT !.op = "add", !.filter = device, !.kind = linkType,
                              !.wd = parentPath]
    /\ UNCHANGED <<fs, nextIno, disk, steps>>

\* m.Save(StorePath)
StSave(wOK) ==
    /\ steps.cmd < MaxSaves
    /\ LET r == Save(sess.Data, disk, wOK)
       IN /\ disk' = r.file
          /\ last' = [NoLast EXCEPT !.op = "save", !.saveErr = r.err,
                                    !.mgr = [nil |-> FALSE, Data |-> sess.Data]]
    /\ steps' = [steps EXCEPT !.cmd = @ + 1]
    /\ UNCHANGED <<fs, nextIno, sess>>

\* LoadFromFile(StorePath), right after a Save that returned no error
StLoad ==
    /\ last.op = "save"
    /\ ~last.saveErr
    /\ last' = [last EXCEPT !.op = "load", !.loaded = LoadFromFile(disk)]
    /\ UNCHANGED <<fs, nextIno, disk, steps, sess>>

\* flk check --device filter, in a process of its own
StCheck(filter) ==
    /\ last.op \notin {"check", "load"}
    /\ LET m == InitStore(disk)
           options == [AllOptions EXCEPT !.DeviceFilter = filter]
       IN /\ ~m.nil
          /\ \E ord \in Orders(Coords(m.Data, options)) :
                last' = [NoLast EXCEPT
                            !.op = "check", !.wd = WdHome, !.mgr = m, !.filter = filter,
                            !.results = performCheck(m.Data, options, fs, ord, WdHome,
                                                     TRUE, TRUE)]
    /\ UNCHANGED <<fs, nextIno, disk, steps, sess>>

StoreNext ==
    \/ \E d \in Devices, t \in LinkTypes, p \in Parents : StAddRecord(d, t, p)
    \/ \E wOK \in BOOLEAN : StSave(wOK)
    \/ StLoad
    \/ \E filter \in Devices : StCheck(filter)

SpecStore == StoreInit /\ [][StoreNext]_vars

\* The coordinates <<device, link type, origin directory>> of a registry.
AllCoords(data) == Coords(data, AllOptions)

\* The entries a sequence of results reports at coordinate c, in order.
ResultsAt(results, c) ==
    LET at == SelectSeq(results, LAMBDA r : <<r.Device, r.Type, r.Path>> = c)
    IN [i \in DOMAIN at |->
           IF c[2] = "symlink" THEN [real |-> at[i].Real, fake |-> at[i].Fake]
           ELSE [prim |-> at[i].Prim, seco |-> at[i].Seco]]

\* C2: a check with a device filter D returns a result for every entry tagged
\* D and for every entry tagged "all", and for no entry of another device;
\* with an empty filter it returns every entry of the platform.
C2_DeviceFilter ==
    last.op = "check" =>
        \A c \in AllCoords(last.mgr.Data) :
            ResultsAt(last.results, c) =
                IF last.filter = "" \/ c[1] = last.filter \/ c[1] = "all"
                THEN last.mgr.Data[GOOS][c[1]][c[2]][c[3]]
                ELSE <<>>

\* A check with a device filter has run on a registry that holds an entry of
\* that device and an entry tagged "all".
C2_Witness ==
    /\ last.op = "check"
    /\ last.filter # ""
    /\ \E c, d \in AllCoords(last.mgr.Data) : c[1] = last.filter /\ d[1] = "all"

\* The list a registry holds at <<device, link type, origin directory>>.
ListAt(data, c) == Get(Get(Get(Get(data, GOOS), c[1]), c[2]), c[3])

\* The coordinate of the AddRecord call the last step made.
AddedAt == <<IF last.filter = "" THEN "all" ELSE last.filter, last.kind, last.wd>>

C9_SaveLoadRoundTrip ==
    last.op = "load" =>
        last.loaded.err = "" /\ last.loaded.data = last.mgr.Data

\* A registry with two records has been saved and loaded.
C9_Witness == last.op = "load" /\ sess.n = 2

(***************************************************************************)
(* Save step by step, with a process that may die between two steps.       *)
(* os.WriteFile opens the file with O_TRUNC, writes, and closes.           *)
(***************************************************************************)
CrashInit ==
    /\ fs = F0
    /\ nextIno = Len(Nodes0) + 1
    /\ disk = NoFile
    /\ last = NoLast
    /\ steps = [cmd |-> 0, env |-> 0]
    /\ sess = [pc |-> "idle", Data |-> EmptyMap, n |-> 0, old |-> NoFile, new |-> NoFile]

CrAddRecord(device, linkType, parentPath) ==
    /\ sess.pc = "idle"
    /\ sess.n < MaxRecords
    /\ sess' = [sess EXCEPT !.Data = AddRecord(@, device, linkType, parentPath,
                                               FieldsOf(linkType)),
                            !.n = @ + 1]
    /\ UNCHANGED <<fs, nextIno, disk, last, steps>>

\* Save up to the open of os.WriteFile: the file exists and is empty.
CrOpenTruncate ==
    /\ sess.pc = "idle"
    /\ steps.cmd < MaxSaves
    /\ sess' = [sess EXCEPT !.pc = "opened", !.old = disk,
                            !.new = Save(sess.Data, disk, TRUE).file]
    /\ disk' = EmptyFile
    /\ steps' = [steps EXCEPT !.cmd = @ + 1]
    /\ UNCHANGED <<fs, nextIno, last>>

\* A first part of the document has reached the file.
CrWritePart ==
    /\ sess.pc = "opened"
    /\ sess' = [sess EXCEPT !.pc = "writing"]
    /\ disk' = PartialFile(sess.new.doc)
    /\ UNCHANGED <<fs, nextIno, last, steps>>

\* The rest of the document has reached the file; Save returns.
CrWriteRest ==
    /\ sess.pc \in {"opened", "writing"}
    /\ sess' = [sess EXCEPT !.pc = "idle"]
    /\ disk' = sess.new
    /\ UNCHANGED <<fs, nextIno, last, steps>>

\* The process dies during Save.
Crash ==
    /\ sess.pc \in {"opened", "writing"}
    /\ sess' = [sess EXCEPT !.pc = "crashed"]
    /\ UNCHANGED <<fs, nextIno, disk, last, steps>>

\* The next command starts and loads the registry file.
CrRestart ==
    /\ sess.pc = "crashed"
    /\ sess' = [sess EXCEPT !.pc = "restarted"]
    /\ last' = [NoLast EXCEPT !.op = "load", !.loaded = LoadFromFile(disk),
                              !.mgr = InitStore(disk)]
    /\ UNCHANGED <<fs, nextIno, disk, steps>>

CrashNext ==
    \/ \E d \in Devices, t \in LinkTypes, p \in Parents : CrAddRecord(d, t, p)
    \/ CrOpenTruncate
    \/ CrWritePart
    \/ CrWriteRest
    \/ Crash
    \/ CrRestart

SpecCrash == CrashInit /\ [][CrashNext]_vars

\* C10: when the process dies during Save, the registry file holds the
\* complete previous content or the complete new content: the registry the
\* next command starts with is the one it would start with from one of the two.
C10_AtomicSave ==
    sess.pc = "crashed" =>
        InitStore(disk) \in {InitStore(sess.old), InitStore(sess.new)}

\* The process has died during a Save that was replacing a registry file that
\* held records.
C10_Witness ==
    /\ sess.pc = "crashed"
    /\ sess.old.kind = "json"
    /\ LoadFromFile(sess.old).data # EmptyMap

(***************************************************************************)
(* The repair session (RunFix).  One fix process: it loads the registry,   *)
(* lists the invalid entries, and handles one input line per step; the     *)
(* manager in memory and the listing live as long as the session.          *)
(***************************************************************************)
TmpK == <<"/", "t", "/", "k">>
HomeAbsA == Home \o <<"/", "a">>

FixWd == WdHome

MaxBatches == 2
MaxIdx == 4

\* checkAndDisplay: one check pass, of which the invalid results are kept.
\* last.homeOK says whether os.UserHomeDir succeeds in the fix process.
checkAndDisplay(data, f, ord) ==
    SelectSeq(performCheck(data, AllOptions, f, ord, FixWd, last.homeOK, TRUE),
              LAMBDA r : ~r.Valid)

\* The decimal numerals of 1 to 9.
Numerals == <<"1", "2", "3", "4", "5", "6", "7", "8", "9">>

\* strconv.Atoi on a token of the input line: the tokens that parse are "0",
\* the numerals, and a numeral written with a sign or a leading zero.
Atoi(part) ==
    IF part = "0" THEN [err |-> FALSE, idx |-> 0]
    ELSE IF part \in {"+1", "01"} THEN [err |-> FALSE, idx |-> 1]
    ELSE IF \E i \in DOMAIN Numerals : Numerals[i] = part
         THEN [err |-> FALSE, idx |-> CHOOSE i \in DOMAIN Numerals : Numerals[i] = part]
         ELSE [err |-> TRUE, idx |-> 0]

\* The test of the parsing loop: the token is warned about and skipped.
Invalid(part, n) == Atoi(part).err \/ Atoi(part).idx < 1 \/ Atoi(part).idx > n

Kept(kept) == [i \in DOMAIN kept |-> Atoi(kept[i]).idx]

\* A variant that takes a number typed by the user as a position counted from 0.
ParseIndicesFromZero(parts, n) ==
    LET kept == SelectSeq(parts, LAMBDA part : ~Invalid(part, n - 1))
    IN [i \in DOMAIN kept |-> Atoi(kept[i]).idx + 1]

\* A variant that gives up the whole line at the first token it cannot use.
ParseIndicesStrict(parts, n) ==
    IF \E i \in DOMAIN parts : Invalid(parts[i], n) THEN <<>>
    ELSE Kept(parts)

\* The numbers of an input line that name a listed entry (1 .. n), in order.
ParseIndices(parts, n) ==
    Kept(SelectSeq(parts, LAMBDA part : ~Invalid(part, n)))

\* The tokens of an input line that the parsing loop warns about, given the
\* numbers it has kept.
Warned(parts, indices) ==
    SelectSeq(parts, LAMBDA part :
                 Atoi(part).err \/ \A i \in DOMAIN indices : indices[i] # Atoi(part).idx)

\* The fields RunFix hands to RemoveMatchingEntry for a listed result.
EntryOf(result) ==
    IF result.Type = "symlink" THEN [real |-> result.Real, fake |-> result.Fake]
    ELSE [prim |-> result.Prim, seco |-> result.Seco]

\* Manager.RemoveMatchingEntry: the first entry at the coordinate whose fields
\* are those of entry is removed.
RemoveMatchingEntry(data, platform, device, linkType, path, entry) ==
    LET es == Get(Get(Get(Get(data, platform), device), linkType), path)
        hits == { i \in DOMAIN es :
                    \A k \in DOMAIN entry : k \in DOMAIN es[i] /\ es[i][k] = entry[k] }
    IN IF hits = {} THEN data
       ELSE LET i == CHOOSE j \in hits : \A h \in hits : j <= h
            IN [data EXCEPT ![platform][device][linkType][path] =
                   SubSeq(es, 1, i - 1) \o SubSeq(es, i + 1, Len(es))]

RECURSIVE DeleteEntries(_, _, _)
\* The loop of the delete mode over the chosen indices.
DeleteEntries(data, listing, indices) ==
    IF indices = <<>> THEN data
    ELSE LET result == listing[Head(indices)]
         IN DeleteEntries(RemoveMatchingEntry(data, GOOS, result.Device, result.Type,
                                              result.Path, EntryOf(result)),
                          listing, Tail(indices))

\* filepath.Join(result.BasePath, p) for a p that is not absolute.
FromBase(result, p) == IF IsAbs(p) THEN p ELSE Join(result.BasePath, p)

\* repairResult(result, idx) in a process in state st = [fs, ino, file, mgr].
repairResult(st, result, wOK) ==
    LET in == [src |-> <<>>, dst |-> <<>>, force |-> TRUE, device |-> result.Device,
               wd |-> FixWd, homeOK |-> last.homeOK, wOK |-> wOK]
    IN IF result.Type = "symlink"
       THEN SymlinkRun(st.mgr, st.fs, st.ino, st.file,
                       [in EXCEPT !.src = FromBase(result, result.Real),
                                  !.dst = result.Fake])
       ELSE IF result.Type = "hardlink"
       THEN HardlinkRun(st.mgr, st.fs, st.ino, st.file,
                        [in EXCEPT !.src = FromBase(result, result.Prim),
                                   !.dst = FromBase(result, result.Seco)])
       ELSE Unrecorded(st.mgr, st.fs, st.ino, st.file, "unknown type", <<>>, <<>>)

\* The process state after repairResult has returned out for index idx of a
\* result of this type: RunFix prints the success line when the error that
\* Symlink or Hardlink returned is nil.
Repaired(st, idx, type, out) ==
    [fs |-> out.fs, ino |-> out.ino, file |-> out.file, mgr |-> out.mgr,
     ok |-> IF ExitStatus(type, out) = 0 THEN st.ok \cup {idx} ELSE st.ok]

RECURSIVE RepairAll(_, _, _, _)
\* The repair loop over the chosen indices; ok collects those reported repaired.
RepairAll(st, listing, indices, wOK) ==
    IF indices = <<>> THEN st
    ELSE RepairAll(Repaired(st, Head(indices), listing[Head(indices)].Type,
                            repairResult(st, listing[Head(indices)], wOK)),
                   listing, Tail(indices), wOK)

\* What identifies a listed entry: its coordinate and its fields.
Identity(r) == <<r.Device, r.Type, r.Path, EntryOf(r)>>

Identities(listing, idxs) == { Identity(listing[i]) : i \in idxs }

\* How many of the positions idxs of a listing show the entry with identity x.
Shown(listing, idxs, x) == Cardinality({ i \in idxs : Identity(listing[i]) = x })

NoBatch == [cmd |-> "", parts |-> <<>>, listing |-> <<>>, before |-> EmptyMap,
            saveErr |-> FALSE]

\* The records of the create commands that built the registry.
FixRecords ==
    { [kind |-> "symlink", fields |-> [real |-> TmpA, fake |-> TmpL]],
      [kind |-> "symlink", fields |-> [real |-> HomeAbsA, fake |-> TmpL]],
      [kind |-> "symlink", fields |-> [real |-> RelA, fake |-> TmpL]],
      [kind |-> "hardlink", fields |-> [prim |-> TmpA, seco |-> TmpL]] }

RECURSIVE AddAll(_, _)
AddAll(data, recs) ==
    IF recs = <<>> THEN data
    ELSE AddAll(AddRecord(data, "", Head(recs).kind, WdTmp, Head(recs).fields), Tail(recs))

\* A registry of one to three records whose links the user has since removed,
\* after a first record whose hard link /t/k is in place.
FixRegistries ==
    { AddAll(AddRecord(EmptyMap, "", "hardlink", WdTmp, [prim |-> TmpA, seco |-> TmpK]), recs) :
        recs \in UNION { [1..n -> FixRecords] : n \in 1..3 } }

FixInit ==
    /\ fs = Link(F0, TmpA, TmpK, WdTmp).fs
    /\ nextIno = Len(Nodes0) + 1
    /\ \E data \in FixRegistries : disk = JsonFile(MarshalIndent(data))
    /\ last = NoLast
    /\ steps = [cmd |-> 0, env |-> 0]
    /\ sess = [pc |-> "start"]

Listed(pc, listing) == IF listing = <<>> THEN "exited" ELSE pc

Started(m, listing) ==
    [pc |-> Listed("prompt", listing), mgr |-> m, listing |-> listing,
     initial |-> [x \in Identities(listing, DOMAIN listing) |->
                    Shown(listing, DOMAIN listing, x)],
     handled |-> [x \in Identities(listing, DOMAIN listing) |-> 0],
     batches |-> 0, first |-> NoBatch, warned |-> <<>>,
     exitBy |-> IF listing = <<>> THEN "check" ELSE ""]

FixStarted(m) ==
    /\ ~m.nil
    /\ \E ord \in Orders(Coords(m.Data, AllOptions)) :
          sess' = Started(m, checkAndDisplay(m.Data, fs, ord))

\* The fix command starts: InitStore, then the first checkAndDisplay.
FixStart ==
    /\ sess.pc = "start"
    /\ FixStarted(InitStore(disk))
    /\ UNCHANGED <<fs, nextIno, disk, last, steps>>

\* The input line "exit" or "e".
FixExit ==
    /\ sess.pc = "prompt"
    /\ sess' = [sess EXCEPT !.pc = "exited", !.exitBy = "input"]
    /\ UNCHANGED <<fs, nextIno, disk, last, steps>>

AfterBatch(cmd, parts, data, idxs, saveErr, listing) ==
    [sess EXCEPT !.pc = Listed("prompt", listing),
                 !.mgr = [nil |-> FALSE, Data |-> data],
                 !.listing = listing,
                 !.handled = [x \in DOMAIN @ |-> @[x] + Shown(sess.listing, idxs, x)],
                 !.batches = @ + 1,
                 !.warned = Warned(parts, ParseIndices(parts, Len(sess.listing))),
                 !.first = IF sess.batches = 0
                           THEN [cmd |-> cmd, parts |-> parts, listing |-> sess.listing,
                                 before |-> sess.mgr.Data, saveErr |-> saveErr]
                           ELSE @,
                 !.exitBy = IF listing = <<>> THEN "check" ELSE ""]

IndexSet(indices) == { indices[i] : i \in DOMAIN indices }

\* The delete mode after the loop: Save, then the next checkAndDisplay.
Deleted(parts, indices, data, sv) ==
    /\ disk' = sv.file
    /\ \E ord \in Orders(Coords(data, AllOptions)) :
          sess' = AfterBatch("d", parts, data, IndexSet(indices), sv.err,
                             checkAndDisplay(data, fs, ord))

DeleteChosen(parts, indices, data, wOK) ==
    Deleted(parts, indices, data, Save(data, disk, wOK))

DeleteParsed(parts, indices, wOK) ==
    /\ indices # <<>>
    /\ DeleteChosen(parts, indices, DeleteEntries(sess.mgr.Data, sess.listing, indices), wOK)

\* An input line "d<numbers>": the delete mode.
FixDelete(parts, wOK) ==
    /\ sess.pc = "prompt"
    /\ sess.batches < MaxBatches
    /\ DeleteParsed(parts, ParseIndices(parts, Len(sess.listing)), wOK)
    /\ UNCHANGED <<fs, nextIno, last, steps>>

\* The repair mode after the loop has left the process in st: the next checkAndDisplay.
RepairedAll(cmd, parts, st) ==
    /\ fs' = st.fs
    /\ nextIno' = st.ino
    /\ disk' = st.file
    /\ \E ord \in Orders(Coords(st.mgr.Data, AllOptions)) :
          sess' = AfterBatch(cmd, parts, st.mgr.Data, st.ok, FALSE,
                             checkAndDisplay(st.mgr.Data, st.fs, ord))

RepairParsed(cmd, parts, indices, wOK) ==
    /\ indices # <<>>
    /\ RepairedAll(cmd, parts,
                   RepairAll([fs |-> fs, ino |-> nextIno, file |-> disk, mgr |-> sess.mgr,
                              ok |-> {}], sess.listing, indices, wOK))

\* An input line of numbers, or "all": the repair of the chosen entries.
FixRepair(all, parts, wOK) ==
    /\ sess.pc = "prompt"
    /\ sess.batches < MaxBatches
    /\ RepairParsed(IF all THEN "all" ELSE "r", parts,
                    IF all THEN [i \in 1..Len(sess.listing) |-> i]
                    ELSE ParseIndices(parts, Len(sess.listing)), wOK)
    /\ UNCHANGED <<last, steps>>

\* An input line, "d..." or not, none of whose tokens names a listed entry:
\* every token is warned about and the loop reads the next line.
FixEmpty(parts) ==
    /\ sess.pc = "prompt"
    /\ ParseIndices(parts, Len(sess.listing)) = <<>>
    /\ sess' = [sess EXCEPT !.warned = Warned(parts, <<>>)]
    /\ UNCHANGED <<fs, nextIno, disk, last, steps>>

Selections == { <<Numerals[i]>> : i \in 1..MaxIdx }

FixNext ==
    \/ FixStart
    \/ FixExit
    \/ \E parts \in Selections, wOK \in BOOLEAN : FixDelete(parts, wOK)
    \/ \E parts \in Selections, wOK \in BOOLEAN : FixRepair(FALSE, parts, wOK)
    \/ \E wOK \in BOOLEAN : FixRepair(TRUE, <<>>, wOK)

SpecFix == FixInit /\ [][FixNext]_vars

(***************************************************************************)
(* Properties of the repair session.                                       *)
(***************************************************************************)
\* The entries a registry holds at coordinate c.
EntriesAt(data, c) == Get(Get(Get(Get(data, GOOS), c[1]), c[2]), c[3])

CoordOf(r) == <<r.Device, r.Type, r.Path>>

\* The session took "d 2" as its only batch on a listing of three entries, the
\* save succeeded, and the user then typed "exit".
DeletedSecondOfThree ==
    /\ sess.pc = "exited"
    /\ sess.exitBy = "input"
    /\ sess.batches = 1
    /\ sess.first.cmd = "d"
    /\ sess.first.parts = <<"2">>
    /\ Len(sess.first.listing) = 3
    /\ ~sess.first.saveErr

\* C7: with three invalid entries listed, "d 2" then "exit" removes exactly the
\* entry shown at index 2 from the persisted registry: one entry with its fields
\* leaves the list at its coordinate, every other list is as it was, and the
\* next check reports as invalid the entries shown at indices 1 and 3 and no other.
C7_DeleteSecond ==
    DeletedSecondOfThree =>
        LET before == sess.first.before
            after == InitStore(disk).Data
            shown == sess.first.listing
            c2 == CoordOf(shown[2])
            es == EntriesAt(before, c2)
        IN /\ \E i \in DOMAIN es :
                /\ es[i] = EntryOf(shown[2])
                /\ EntriesAt(after, c2) = SubSeq(es, 1, i - 1) \o SubSeq(es, i + 1, Len(es))
           /\ \A c \in AllCoords(before) \cup AllCoords(after) :
                c # c2 => EntriesAt(after, c) = EntriesAt(before, c)
           /\ \A ord \in Orders(AllCoords(after)) :
                LET next == checkAndDisplay(after, fs, ord)
                IN \A x \in Identities(shown, {1, 2, 3}) \cup Identities(next, DOMAIN next) :
                      Shown(next, DOMAIN next, x) = Shown(shown, {1, 3}, x)

\* "d 2" then "exit" on three listed entries that differ from one another, in a
\* registry that also holds an entry that was not listed.
C7_Witness ==
    /\ DeletedSecondOfThree
    /\ Cardinality(Identities(sess.first.listing, {1, 2, 3})) = 3
    /\ \E c \in AllCoords(sess.first.before) :
          Len(EntriesAt(sess.first.before, c)) >
             Cardinality({ i \in 1..3 : CoordOf(sess.first.listing[i]) = c })

\* Every entry listed at the start has since been selected in a batch and
\* deleted or reported repaired, as many times as the listing showed it.
AllHandled ==
    /\ sess.pc \in {"prompt", "exited"}
    /\ sess.batches >= 1
    /\ \A x \in DOMAIN sess.initial : sess.handled[x] >= sess.initial[x]

\* C8: the session ends by itself once every invalid entry it listed at the
\* start has been selected and deleted or reported repaired, and it has then
\* taken no more batches than there were distinct invalid entries.
C8_Termination ==
    (AllHandled /\ sess.batches <= Len(sess.first.listing))
    => (sess.pc = "exited" /\ sess.exitBy = "check")

\* Every entry listed at the start has been reported repaired, in no more
\* batches than there were entries.
C8_Witness ==
    /\ AllHandled
    /\ sess.batches <= Len(sess.first.listing)
    /\ sess.first.cmd \in {"r", "all"}

(***************************************************************************)
(* One command against a registry file of any content: the file may be     *)
(* absent, empty, hold the document null or {}, hold text that is no JSON, *)
(* or hold a registry; the home directory may be unknown (os.UserHomeDir   *)
(* fails) and the file may be unwritable.                                  *)
(***************************************************************************)
MissingA == <<"/", "t", "/", "x">>
DeepL == <<"/", "t", "/", "d", "/", "l">>

OneRegistry == AddRecord(EmptyMap, "", "symlink", WdTmp, [real |-> TmpA, fake |-> TmpK])

OneFiles ==
    { NoFile, EmptyFile, JsonFile(NilMap), JsonFile(EmptyMap), PartialFile(EmptyMap),
      JsonFile(MarshalIndent(OneRegistry)) }

OneInputs ==
    [src : {TmpA, HomeA, MissingA}, dst : {TmpL, HomeL, TmpA, DeepL}, force : BOOLEAN,
     device : {"", "laptop"}, wd : {WdTmp}, homeOK : BOOLEAN, wOK : BOOLEAN]

MaxOne == 1

OneInit ==
    /\ fs = F0
    /\ nextIno = Len(Nodes0) + 1
    /\ disk \in OneFiles
    /\ last = NoLast
    /\ steps = [cmd |-> 0, env |-> 0]
    /\ sess = NoSession

OneSymlink(in) == steps.cmd < MaxOne /\ CmdSymlink(in)

OneHardlink(in) == steps.cmd < MaxOne /\ CmdHardlink(in)

OneCheck(rlOK) == CmdCheck(WdTmp, TRUE, rlOK)

OneNext ==
    \/ \E in \in OneInputs : OneSymlink(in)
    \/ \E in \in OneInputs : OneHardlink(in)
    \/ \E rlOK \in BOOLEAN : OneCheck(rlOK)

SpecOne == OneInit /\ [][OneNext]_vars

(***************************************************************************)
(* Properties of one command.                                              *)
(***************************************************************************)
\* The registry the text of the file holds.
InFile(file) == IF file.kind = "json" THEN Unmarshal(file.doc) ELSE EmptyMap

\* The device key a create command run with --device device records under.
DeviceKey(device) == IF device = "" THEN "all" ELSE device

\* The field of an entry of this kind that names the link.
LinkField(kind) == IF kind = "symlink" THEN "fake" ELSE "seco"

\* Registry after is registry before with one entry more, at the end of the
\* list at some coordinate of this kind and origin directory, and that entry
\* names the link at path dst.
OneAppended(before, after, kind, origin, dst) ==
    \E c \in AllCoords(after) :
        /\ c[2] = kind /\ c[3] = origin
        /\ Len(ListAt(after, c)) = Len(ListAt(before, c)) + 1
        /\ SubSeq(ListAt(after, c), 1, Len(ListAt(before, c))) = ListAt(before, c)
        /\ NormalizePath(ListAt(after, c)[Len(ListAt(after, c))][LinkField(kind)], TRUE).val
              = dst
        /\ \A d \in (AllCoords(before) \cup AllCoords(after)) \ {c} :
              ListAt(after, d) = ListAt(before, d)

\* C12: a create command that made its link and saved the registry leaves in
\* the registry file every entry the file held when the command started, in
\* the same lists and order, and the new entry after them.
C12_PersistByAppend ==
    [][(last'.op = "create" /\ last'.Success /\ last'.recorded /\ ~last'.saveErr) =>
          OneAppended(InFile(disk), InFile(disk'), last'.kind, foldPath(last'.wd),
                      Abs(last'.dst, last'.wd))]_vars

\* A create command has added an entry to a registry file that held one.
C12_Witness ==
    /\ last.op = "create" /\ last.Success /\ last.recorded /\ ~last.saveErr
    /\ \E c \in AllCoords(InFile(disk)) : Len(ListAt(InFile(disk), c)) = 2
\* The number of entries of a registry.
RECURSIVE SumLen(_, _)
SumLen(data, cs) ==
    IF cs = {} THEN 0
    ELSE LET c == CHOOSE x \in cs : TRUE
         IN Len(ListAt(data, c)) + SumLen(data, cs \ {c})

Entries(data) == SumLen(data, AllCoords(data))

\* C13: a create command that finds no registry file does not take that for
\* an error: when the link is made the entry is added, and when the save
\* succeeds the file then exists and holds exactly that one entry.
C13_MissingFile ==
    (last.op = "create" /\ last.loaded.err = "notexist" /\ last.Success) =>
        /\ last.recorded
        /\ ~last.panic
        /\ last.saveErr => disk = NoFile
        /\ ~last.saveErr =>
              /\ disk.kind = "json"
              /\ Entries(InFile(disk)) = 1
              /\ OneAppended(EmptyMap, InFile(disk), last.kind, foldPath(last.wd),
                             Abs(last.dst, last.wd))

C13_Witness ==
    /\ last.op = "create" /\ last.loaded.err = "notexist"
    /\ last.Success /\ last.recorded /\ ~last.saveErr
    /\ disk.kind = "json" /\ Entries(InFile(disk)) = 1

\* C14: a command that finds a registry file whose content is not valid
\* JSON ends with a non-zero exit status, has created no link, has checked
\* nothing and has left the file as it was.
C14_MalformedFatal ==
    /\ (last.op = "create" /\ last.loaded.err = "syntax") =>
          /\ last.exit # 0
          /\ fs = last.pre
          /\ ~last.Success
          /\ disk.kind = "partial"
    /\ (last.op = "check" /\ last.mgr.nil) =>
          /\ last.exit # 0
          /\ last.results = <<>>
          /\ disk.kind = "partial"

\* What a create command reports: its result and its exit status.
Outcome == <<last.Success, last.Error, last.exit>>

\* C15: a create command whose link is made and whose save of the registry
\* fails ends with a non-zero exit status, and reports something else than a
\* command whose link is made and recorded.
C15_SaveSurfaced ==
    (last.op = "create" /\ last.saveErr) =>
        /\ last.exit # 0
        /\ Outcome # <<TRUE, "", 0>>

\* The last create command ran symlink.Create or hardlink.Create and got an
\* error back.
CreateFailed == last.op = "create" /\ ~last.Success /\ last.Error # "normalize"

SourceMissing ==
    /\ last.op = "create" /\ last.Error # "normalize"
    /\ IsNotExist(Stat(last.pre, last.src, last.wd))

\* C17: when the source of a create command (real or prim) does not exist,
\* Create returns an error and the filesystem is as it was before the
\* command: the destination, its parent directory and a file at the
\* destination are untouched, with force and without.
C17_SourcePrecondition ==
    SourceMissing =>
        /\ ~last.Success
        /\ last.Error # ""
        /\ fs = last.pre

\* The source is missing, force is set and a file stands at the destination.
C17_Witness ==
    /\ SourceMissing /\ last.force /\ last.kind = "symlink"
    /\ Lstat(last.pre, last.dst, last.wd).err = "ok"
    /\ ~last.Success

\* C18: AddRecord completes and appends one entry on every registry that
\* InitStore can hand to it: a create command that made its link and holds a
\* manager has recorded the entry and has not panicked.
C18_AddRecordNeverFails ==
    (last.op = "create" /\ last.Success /\ ~last.mgr.nil) =>
        /\ ~last.panic
        /\ last.recorded

\* The results of a pass, without their order.
ResultSet(results) == { results[i] : i \in DOMAIN results }

\* The results of a second pass over registry m and filesystem f, made in the
\* order ord by the process that reported l.
Again(m, f, l, ord) ==
    performCheck(m.Data, AllOptions, f, ord, l.wd, l.homeOK, l.rlOK)

\* In whatever order the maps are ranged over, a second pass reports what l
\* reports.
SameAgain(m, f, l) ==
    \A ord \in Orders(AllCoords(m.Data)) :
        /\ Len(Again(m, f, l, ord)) = Len(l.results)
        /\ ResultSet(Again(m, f, l, ord)) = ResultSet(l.results)

MaxPathLen == 5

PathChars == {"/", "h", "a", "."}

Paths == UNION {[1..n -> PathChars] : n \in 0..MaxPathLen}

PathInit ==
    /\ fs = F0 /\ nextIno = Len(Nodes0) + 1 /\ disk = NoFile
    /\ last = NoLast /\ steps = [cmd |-> 0, env |-> 0]
    /\ \E p \in Paths : sess = [pc |-> "path", path |-> p]

Folded(by, folded) ==
    /\ sess.pc = "path"
    /\ sess' = [pc |-> "folded", path |-> sess.path, by |-> by, folded |-> folded]
    /\ UNCHANGED <<fs, nextIno, disk, last, steps>>

Expanded(by, e) ==
    /\ sess.pc = "folded"
    /\ sess' = [pc |-> "expanded", path |-> sess.path, by |-> sess.by,
                folded |-> sess.folded, with |-> by, err |-> e.err, val |-> e.val]
    /\ UNCHANGED <<fs, nextIno, disk, last, steps>>

PathFold == Folded("foldPath", foldPath(sess.path))

PathShrink == Folded("shrinkHome", shrinkHome(sess.path))

PathExpand == Expanded("ExpandHome", ExpandHome(sess.folded, TRUE))

PathNormalize == Expanded("NormalizePath", NormalizePath(sess.folded, TRUE))

PathNext == PathFold \/ PathShrink \/ PathExpand \/ PathNormalize

SpecPath == PathInit /\ [][PathNext]_vars

\* The path is the home directory or lies under it.
UnderHome(p) == p = Home \/ HasPrefix(p, Home \o <<SEP>>)

Procs == {1, 2}

RaceDests == {TmpL, DeepL}

RaceFiles == {NoFile, JsonFile(MarshalIndent(OneRegistry))}

\* A file whose first bytes are the document head and whose remaining bytes
\* are the end of the longer document tail: no well-formed JSON document.
MixedFile(head, tail) == [kind |-> "mixed", doc |-> head, tail |-> tail]

RECURSIVE CharsOf(_)
CharsOf(entries) ==
    IF entries = <<>> THEN 0
    ELSE Len(GetField(Head(entries), "real")) + Len(GetField(Head(entries), "fake"))
         + Len(GetField(Head(entries), "prim")) + Len(GetField(Head(entries), "seco"))
         + 1 + CharsOf(Tail(entries))

RECURSIVE CharsAt(_, _)
CharsAt(data, cs) ==
    IF cs = {} THEN 0
    ELSE LET c == CHOOSE x \in cs : TRUE
         IN Len(c[3]) + CharsOf(ListAt(data, c)) + CharsAt(data, cs \ {c})

\* The length of the text json.MarshalIndent produces, up to what the device
\* and link-type keys and the indentation add: the characters of the origin
\* directories and of the field values, and one unit for each entry.
TextLen(doc) == CharsAt(Unmarshal(doc), AllCoords(Unmarshal(doc)))

\* The bytes the file holds: a mixed file is as long as its longer document.
FileLen(file) ==
    IF file.kind = "json" THEN TextLen(file.doc)
    ELSE IF file.kind = "mixed" THEN TextLen(file.tail)
    ELSE 0

\* f.Write(data) at offset 0 of a descriptor opened before: the bytes of the
\* file beyond the length of data stay.
WriteAt0(file, doc) ==
    IF FileLen(file) <= TextLen(doc) THEN JsonFile(doc)
    ELSE MixedFile(doc, IF file.kind = "mixed" THEN file.tail ELSE file.doc)

RaceInit ==
    /\ fs = F0 /\ nextIno = Len(Nodes0) + 1
    /\ disk \in RaceFiles
    /\ last = NoLast /\ steps = [cmd |-> 0, env |-> 0]
    /\ sess = [pc |-> "race", before |-> Entries(InFile(disk)), lastSaver |-> 0,
               proc |-> [p \in Procs |-> [pc |-> "start", mgr |-> NoManager]]]

Moved(p, pc, mgr) ==
    sess' = [sess EXCEPT !.proc[p] = [pc |-> pc, mgr |-> mgr]]

\* PersistentPreRun of process p: InitStore(StorePath).
RaceLoad(p) ==
    /\ sess.proc[p].pc = "start"
    /\ Moved(p, "loaded", InitStore(disk))
    /\ UNCHANGED <<fs, nextIno, disk, last, steps>>

\* mgr.AddRecord of process p, after it has created its link dst.
RaceAdd(p, dst) ==
    /\ sess.proc[p].pc = "loaded"
    /\ ~sess.proc[p].mgr.nil
    /\ Moved(p, "added",
             [nil |-> FALSE,
              Data |-> AddRecord(sess.proc[p].mgr.Data, "", "symlink", WdTmp,
                                 [real |-> TmpA, fake |-> dst])])
    /\ UNCHANGED <<fs, nextIno, disk, last, steps>>

\* mgr.Save of process p up to the open of os.WriteFile.
RaceOpen(p) ==
    /\ sess.proc[p].pc = "added"
    /\ Moved(p, "opened", sess.proc[p].mgr)
    /\ disk' = EmptyFile
    /\ UNCHANGED <<fs, nextIno, last, steps>>

\* The write of os.WriteFile in process p; Save returns.
RaceWrite(p) ==
    /\ sess.proc[p].pc = "opened"
    /\ sess' = [sess EXCEPT !.proc[p].pc = "done", !.lastSaver = p]
    /\ disk' = WriteAt0(disk, MarshalIndent(sess.proc[p].mgr.Data))
    /\ UNCHANGED <<fs, nextIno, last, steps>>

RaceNext ==
    \/ \E p \in Procs : RaceLoad(p)
    \/ \E p \in Procs, dst \in RaceDests : RaceAdd(p, dst)
    \/ \E p \in Procs : RaceOpen(p)
    \/ \E p \in Procs : RaceWrite(p)

SpecRace == RaceInit /\ [][RaceNext]_vars

RaceDone == sess.pc = "race" /\ \A p \in Procs : sess.proc[p].pc = "done"

\* C21: when both invocations have loaded, added and saved, the file is the
\* complete document of the Save that returned last, in every interleaving.
C21_LastWriterWins ==
    RaceDone => disk = JsonFile(MarshalIndent(sess.proc[sess.lastSaver].mgr.Data))

\* Both have saved, and the file holds the last saver's registry without the
\* entry the other process added.
C21_Witness ==
    /\ RaceDone
    /\ disk = JsonFile(MarshalIndent(sess.proc[sess.lastSaver].mgr.Data))
    /\ Entries(InFile(disk)) = sess.before + 1

(***************************************************************************)
(* One create command on a filesystem whose destination may be taken: by a *)
(* symbolic link whose target is missing, by a file, or by a directory     *)
(* that is not empty.                                                      *)
(***************************************************************************)
\* F0 and a symbolic link /t/l whose target /t/x does not exist.
Dangling ==
    With(F0, Split(TmpL), [k |-> "link", ino |-> Len(Nodes0) + 1, tgt |-> <<"x">>])

ForceInputs ==
    [src : {TmpA, HomeA, MissingA}, dst : {TmpL, TmpA, WdHome, DeepL}, force : BOOLEAN,
     device : {"", "laptop"}, wd : {WdTmp}, homeOK : {TRUE}, wOK : {TRUE}]

ForceInit ==
    /\ fs \in {F0, Dangling}
    /\ nextIno = Len(Nodes0) + 2
    /\ disk = NoFile
    /\ last = NoLast
    /\ steps = [cmd |-> 0, env |-> 0]
    /\ sess = NoSession

ForceNext ==
    \/ \E in \in ForceInputs : OneSymlink(in)
    \/ \E in \in ForceInputs : OneHardlink(in)

SpecForce == ForceInit /\ [][ForceNext]_vars

\* The last command called Create with force and a source that exists.
Forced ==
    /\ last.op = "create" /\ last.force /\ last.Error # "normalize"
    /\ Stat(last.pre, last.src, last.wd).err = "ok"

\* Before the command the destination was a symbolic link with a missing target.
DanglingDest ==
    /\ Lstat(last.pre, last.dst, last.wd).err = "ok"
    /\ IsNotExist(Stat(last.pre, last.dst, last.wd))

\* Before the command the destination existed and os.Remove fails on it.
StuckDest ==
    /\ Lstat(last.pre, last.dst, last.wd).err = "ok"
    /\ Remove(last.pre, last.dst, last.wd).err # "ok"

\* C22: with force, a create command (symlink or hardlink) whose destination
\* is a dangling symbolic link removes it and succeeds, and one whose
\* destination cannot be removed returns the error of the removal and has
\* created nothing.
C22_ForceRemoval ==
    Forced =>
        /\ DanglingDest => last.Success
        /\ StuckDest =>
              /\ ~last.Success
              /\ last.Error = Remove(last.pre, last.dst, last.wd).err
              /\ fs = last.pre

\* create symlink --force has replaced a dangling symbolic link.
C22_Witness ==
    /\ Forced /\ DanglingDest /\ last.kind = "symlink" /\ last.Success
    /\ Stat(fs, last.dst, last.wd).err = "ok"

\* The result r of a symlink entry came from the comparison of the two
\* resolved paths: the link was found, is a symbolic link and was read.
Compared(r) ==
    /\ r.Type = "symlink"
    /\ r.ErrorType \in {"", "TARGET_MISSING", "TARGET_ACCESS_FAIL", "EXPECTED_MISSING",
                        "EXPECTED_ACCESS_FAIL", "TARGET_MISMATCH"}

\* The path of the link of r, and the target string the link holds.
FakeOf(r) == NormalizePath(r.Fake, last.homeOK).val

LinkTargetOf(r) == Node(fs, Lstat(fs, FakeOf(r), last.wd).p).tgt

\* The file the link's target string names for a process standing in the
\* directory that contains the link, and the file the recorded real names for
\* a process standing in the normalized origin directory.
TargetFrom(r) == Stat(fs, LinkTargetOf(r), Dir(FakeOf(r)))

ExpectedFrom(r) == Stat(fs, r.Real, BasePath(r.Path, last.homeOK))

\* C23: in the validation of a symlink entry, the target string of the link
\* is resolved from the directory that contains fake and the recorded real
\* from the normalized origin directory (an absolute one is used as it is),
\* and the entry is valid exactly when both resolve to the same file.
C23_PathResolution ==
    last.op = "check" =>
        \A i \in DOMAIN last.results :
            Compared(last.results[i]) =>
                (last.results[i].Valid <=>
                    /\ TargetFrom(last.results[i]).err = "ok"
                    /\ ExpectedFrom(last.results[i]).err = "ok"
                    /\ SameFile(fs, TargetFrom(last.results[i]),
                                ExpectedFrom(last.results[i])))

\* A check run outside the origin directory has found valid an entry whose
\* real is relative, whose link holds a relative target, and whose link lies
\* in another directory than the origin directory.
C23_Witness ==
    /\ last.op = "check"
    /\ \E i \in DOMAIN last.results :
          /\ Compared(last.results[i]) /\ last.results[i].Valid
          /\ ~IsAbs(last.results[i].Real)
          /\ ~IsAbs(LinkTargetOf(last.results[i]))
          /\ LinkTargetOf(last.results[i]) # last.results[i].Real
          /\ Dir(FakeOf(last.results[i])) # BasePath(last.results[i].Path, last.homeOK)
          /\ last.wd # BasePath(last.results[i].Path, last.homeOK)

\* The session has taken one batch, the repair of the one entry the user
\* selected by its number.
RepairedOne ==
    /\ sess.pc \in {"prompt", "exited"}
    /\ sess.batches = 1
    /\ sess.first.cmd = "r"

\* The entries that batch reported as repaired.
ReportedRepaired == { x \in DOMAIN sess.handled : sess.handled[x] > 0 }

\* C24: an entry the repair session reports as repaired is valid in the
\* listing that follows: that listing does not show it.
C24_RepairRestoresValidity ==
    RepairedOne =>
        \A x \in ReportedRepaired : Shown(sess.listing, DOMAIN sess.listing, x) = 0

\* A repair was reported and the entry is gone from the following listing.
C24_Witness ==
    /\ RepairedOne
    /\ ReportedRepaired # {}
    /\ \A x \in ReportedRepaired : Shown(sess.listing, DOMAIN sess.listing, x) = 0

(***************************************************************************)
(* A repair session whose batches select several entries, some of which    *)
(* cannot be repaired, in a process that may not know its home directory.  *)
(***************************************************************************)
TmpM == <<"/", "t", "/", "m">>
TmpN == <<"/", "t", "/", "n">>

BatchRecords ==
    << [kind |-> "symlink", fields |-> [real |-> MissingA, fake |-> TmpL]],
       [kind |-> "symlink", fields |-> [real |-> TmpA, fake |-> TmpM]],
       [kind |-> "hardlink", fields |-> [prim |-> TmpA, seco |-> Home \o <<"/", "l">>]],
       [kind |-> "hardlink", fields |-> [prim |-> MissingA, seco |-> TmpN]] >>

\* Two or three of the records, added in their order.
BatchRegistries ==
    { AddAll(EmptyMap, [i \in DOMAIN pick |-> BatchRecords[pick[i]]]) :
        pick \in { q \in UNION { [1..n -> DOMAIN BatchRecords] : n \in 2..3 } :
                      \A i, j \in DOMAIN q : i < j => q[i] < q[j] } }

BatchSelections ==
    { <<Numerals[i]>> : i \in 1..3 }
    \cup { <<Numerals[i], Numerals[j]>> : i \in 1..3, j \in 1..3 }

BatchInit ==
    /\ fs = F0
    /\ nextIno = Len(Nodes0) + 1
    /\ \E data \in BatchRegistries : disk = JsonFile(MarshalIndent(data))
    /\ \E homeOK \in BOOLEAN : last = [NoLast EXCEPT !.homeOK = homeOK]
    /\ steps = [cmd |-> 0, env |-> 0]
    /\ sess = [pc |-> "start"]

BatchNext ==
    \/ FixStart
    \/ FixExit
    \/ \E parts \in BatchSelections, wOK \in BOOLEAN : FixRepair(FALSE, parts, wOK)
    \/ \E wOK \in BOOLEAN : FixRepair(TRUE, <<>>, wOK)

SpecBatch == BatchInit /\ [][BatchNext]_vars

\* The session has taken one batch, a repair.
RepairBatch ==
    /\ sess.pc \in {"prompt", "exited"}
    /\ sess.batches = 1
    /\ sess.first.cmd \in {"r", "all"}

\* The rows of the listing that the batch selected, in the order typed.
SelectedRows == ParseIndices(sess.first.parts, Len(sess.first.listing))

Selected ==
    IF sess.first.cmd = "all" THEN DOMAIN sess.first.listing
    ELSE IndexSet(SelectedRows)

SourceOf(r) == IF r.Type = "symlink" THEN r.Real ELSE r.Prim

DestOf(r) == IF r.Type = "symlink" THEN r.Fake ELSE r.Seco

\* The link of the listed entry r is in place.
Made(r) == Lstat(fs, NormalizePath(DestOf(r), TRUE).val, FixWd).err = "ok"

Reported(r) == sess.handled[Identity(r)] > 0

\* C25: in a repair batch every selected entry is attempted, whatever became
\* of the entries before it (the link of an entry whose source exists is in
\* place after the batch when the process knows its home directory), and an
\* entry, symlink or hardlink, is reported as repaired only when its link
\* was created.
C25_BatchPerEntry ==
    RepairBatch =>
        \A i \in Selected :
            /\ Reported(sess.first.listing[i]) => Made(sess.first.listing[i])
            /\ (last.homeOK /\ Stat(fs, SourceOf(sess.first.listing[i]), FixWd).err = "ok")
                  => Made(sess.first.listing[i])

\* A batch of two entries: the repair of the first failed, the second was
\* repaired and reported.
C25_Witness ==
    /\ RepairBatch
    /\ sess.first.cmd = "r"
    /\ Len(SelectedRows) = 2
    /\ SelectedRows[1] # SelectedRows[2]
    /\ ~Reported(sess.first.listing[SelectedRows[1]])
    /\ ~Made(sess.first.listing[SelectedRows[1]])
    /\ Reported(sess.first.listing[SelectedRows[2]])
    /\ Made(sess.first.listing[SelectedRows[2]])

(***************************************************************************)
(* The repair session reading lines that hold tokens of every sort.        *)
(***************************************************************************)
\* The tokens a line is made of: numerals in and out of the range of the
\* listing, a signed numeral, zero, and a word.
Tokens == {"0", "1", "2", "3", "+1", "x"}

MaxTokens == 2

\* The batches of a session that reads such lines.
MaxParsed == 1

\* Two of the first three records, added in their order.
ParseRegistries ==
    { AddAll(EmptyMap, <<BatchRecords[i], BatchRecords[j]>>) :
        <<i, j>> \in {<<1, 2>>, <<1, 3>>, <<2, 3>>} }

\* The lines the user types: the fields of the line, or of what follows "d".
Lines == UNION { [1..n -> Tokens] : n \in 0..MaxTokens }

ParseInit ==
    /\ fs = F0
    /\ nextIno = Len(Nodes0) + 1
    /\ \E data \in ParseRegistries : disk = JsonFile(MarshalIndent(data))
    /\ last = NoLast
    /\ steps = [cmd |-> 0, env |-> 0]
    /\ sess = [pc |-> "start"]

\* The session has taken fewer than MaxParsed batches.
FirstLine == sess.pc = "prompt" /\ sess.batches < MaxParsed

ParseNext ==
    \/ FixStart
    \/ FixExit
    \/ \E parts \in Lines : FixEmpty(parts)
    \/ \E parts \in Lines, wOK \in BOOLEAN :
          FirstLine /\ FixDelete(parts, wOK)
    \/ \E parts \in Lines, wOK \in BOOLEAN :
          FirstLine /\ FixRepair(FALSE, parts, wOK)
    \/ \E wOK \in BOOLEAN :
          FirstLine /\ FixRepair(TRUE, <<>>, wOK)

SpecParse == ParseInit /\ [][ParseNext]_vars

\* The token is a decimal integer between 1 and n.
Names(part, n) == ~Atoi(part).err /\ Atoi(part).idx \in 1..n

RECURSIVE RowsOf(_, _)
\* The rows of a listing of n rows that the tokens of a line name, in order.
RowsOf(parts, n) ==
    IF parts = <<>> THEN <<>>
    ELSE (IF Names(Head(parts), n) THEN <<Atoi(Head(parts)).idx>> ELSE <<>>)
         \o RowsOf(Tail(parts), n)

\* The registry and the filesystem after the session has acted on rows.
Acted(cmd, rows, wOK) ==
    IF cmd = "d"
    THEN /\ sess'.mgr.Data = DeleteEntries(sess.mgr.Data, sess.listing, rows)
         /\ fs' = fs
    ELSE /\ fs' = RepairAll([fs |-> fs, ino |-> nextIno, file |-> disk, mgr |-> sess.mgr,
                             ok |-> {}], sess.listing, rows, wOK).fs
         /\ sess'.mgr.Data =
               RepairAll([fs |-> fs, ino |-> nextIno, file |-> disk, mgr |-> sess.mgr,
                          ok |-> {}], sess.listing, rows, wOK).mgr.Data

\* The session acts on exactly the rows that the tokens of the line name, and
\* warns about exactly the other tokens.
ActedOnNamed(cmd, parts, n) ==
    /\ RowsOf(parts, n) # <<>>
    /\ sess'.warned = SelectSeq(parts, LAMBDA part : ~Names(part, n))
    /\ \E wOK \in BOOLEAN : Acted(cmd, RowsOf(parts, n), wOK)
    /\ sess'.exitBy # "input"

\* The first batch of the session is taken by this step.
FirstBatchStep == sess.pc = "prompt" /\ sess.batches = 0 /\ sess'.batches = 1

\* This step reads a line and goes back to reading without a batch.
EmptyStep ==
    /\ sess.pc = "prompt"
    /\ sess'.batches = sess.batches
    /\ sess'.exitBy # "input"

\* A line that selects nothing: only the warnings of the session change.
NothingDone ==
    /\ UNCHANGED <<fs, nextIno, disk>>
    /\ sess' = [sess EXCEPT !.warned = sess'.warned]
    /\ \A i \in DOMAIN sess'.warned : ~Names(sess'.warned[i], Len(sess.listing))

\* C26 as stated, for every line other than exit/e: the batch acts on exactly
\* the rows that the tokens of the line name as integers of 1..N, and a line
\* whose tokens name no row changes nothing.  The line "all" names no row.
C26_AnyLine ==
    [][/\ FirstBatchStep =>
             ActedOnNamed(sess'.first.cmd, sess'.first.parts, Len(sess.listing))
       /\ EmptyStep => NothingDone]_vars

\* C26: for every line other than exit/e and all/a (after the "d" of a
\* deletion line), the session acts on exactly the rows that the tokens of
\* the line name as integers of 1..N, N the rows of the latest listing, each
\* mapped to the entry on that row; it warns about every other token and goes
\* on; and a line that names no row changes neither the filesystem nor the
\* registry and leaves the session reading input.
C26_SelectionParsing ==
    [][/\ (FirstBatchStep /\ sess'.first.cmd # "all") =>
             ActedOnNamed(sess'.first.cmd, sess'.first.parts, Len(sess.listing))
       /\ EmptyStep => NothingDone]_vars

\* A deletion line with a word and a numeral: the word was warned about and
\* the entry of the row was deleted.
C26_Witness ==
    /\ sess.pc \in {"prompt", "exited"}
    /\ sess.batches = 1
    /\ sess.first.cmd = "d"
    /\ sess.first.parts = <<"x", "2">>
    /\ sess.warned = <<"x">>
    /\ sess.mgr.Data = DeleteEntries(sess.first.before, sess.first.listing, <<2>>)
    /\ sess.mgr.Data # sess.first.before

(***************************************************************************)
(* The deletion batch of the repair session.                               *)
(***************************************************************************)
\* The session has taken one batch, a deletion.
DeleteBatch ==
    /\ sess.pc \in {"prompt", "exited"}
    /\ sess.batches = 1
    /\ sess.first.cmd = "d"

\* The session goes on after the batch: it has listed again and reads the next
\* line, or has ended because nothing invalid is left.
GoesOn == sess.pc = "prompt" \/ sess.exitBy = "check"

\* C27: a deletion batch applies RemoveMatchingEntry to every selected entry
\* and then saves the registry once, so that the file holds the registry
\* after the removals; it creates and removes no link; and when the save
\* fails the session aborts with a fatal error instead of going on.
C27_DeletionBatch ==
    DeleteBatch =>
        /\ fs = Link(F0, TmpA, TmpK, WdTmp).fs
        /\ sess.mgr.Data = DeleteEntries(sess.first.before, sess.first.listing,
                                         ParseIndices(sess.first.parts,
                                                      Len(sess.first.listing)))
        /\ ~sess.first.saveErr => disk = JsonFile(MarshalIndent(sess.mgr.Data))
        /\ sess.first.saveErr => ~GoesOn

\* The save of a deletion batch has failed and the session reads the next line.
C27_Witness ==
    /\ DeleteBatch
    /\ sess.first.saveErr
    /\ sess.pc = "prompt"
    /\ sess.mgr.Data # sess.first.before
    /\ disk # JsonFile(MarshalIndent(sess.mgr.Data))

(***************************************************************************)
(* The registry across the repairs of a session.                           *)
(***************************************************************************)
\* Some entry of the batch was reported repaired.
SomeRepaired ==
    \E i \in DOMAIN sess.first.listing : Reported(sess.first.listing[i])

\* C28: a repair leaves the registry with the entries it had: none added
\* under the origin-directory of the entry or under any other, none removed,
\* no field changed; so the registry after a repair batch with no deletion
\* holds as many entries as before it.
C28_RepairKeepsRegistry ==
    RepairBatch =>
        /\ sess.mgr.Data = sess.first.before
        /\ Entries(sess.mgr.Data) = Entries(sess.first.before)

\* A repair batch in a process that knows its home directory has reported an
\* entry repaired, the link of that entry is in place, and the registry holds
\* more entries than before the batch.
C28_Witness ==
    /\ RepairBatch
    /\ last.homeOK
    /\ \E i \in DOMAIN sess.first.listing :
          /\ Reported(sess.first.listing[i])
          /\ Made(sess.first.listing[i])
    /\ Entries(sess.mgr.Data) > Entries(sess.first.before)
    /\ disk = JsonFile(MarshalIndent(sess.mgr.Data))

(***************************************************************************)
(* The legacy checker and fixer (old-flk): records are kept in one list    *)
(* per operating system, each record tagged with its device.               *)
(***************************************************************************)
LegacyOS == "linux"
OtherOS == "windows"

\* The directory of file-link-manager-links.json, the base of the relative paths.
workDir == WdTmp

LinksFile(data) == [kind |-> "links", Symlinks |-> data]

\* Checker/Fixer.filterSymlinksByDevice.
filterSymlinksByDevice(records, device) ==
    IF device = "" THEN records
    ELSE SelectSeq(records, LAMBDA record :
                      record.Device = "common" \/ record.Device = device)

\* The old pathutil.ToAbsolute(basePath, targetPath).
LegacyToAbsolute(basePath, targetPath) ==
    LET e == ExpandHome(targetPath, TRUE)
    IN IF e.err \/ e.val = <<>> THEN [err |-> TRUE, val |-> <<>>]
       ELSE IF IsAbs(e.val) THEN [err |-> FALSE, val |-> Clean(e.val)]
       ELSE [err |-> FALSE, val |-> Clean(Join(basePath, e.val))]

\* linkop.GetSymlinkTargetAbs of a path that is a symbolic link with target tgt.
GetSymlinkTargetAbs(symlinkPath, tgt) ==
    IF IsAbs(tgt) THEN Clean(tgt) ELSE Clean(Join(Dir(symlinkPath), tgt))

\* checkSymlinkStatus once the link path has been looked up (l).
SymlinkStatusAt(f, realPath, fakePath, l) ==
    IF l.err # "ok" THEN "missing_fake"
    ELSE IF Node(f, l.p).k # "link" THEN "not_symlink"
    ELSE IF NormalizePath(realPath, TRUE).val
            # NormalizePath(GetSymlinkTargetAbs(fakePath, Node(f, l.p).tgt), TRUE).val
         THEN "mismatch"
         ELSE "ok"

\* Checker/Fixer.checkSymlinkStatus.
checkSymlinkStatus(f, realPath, fakePath) ==
    IF Stat(f, realPath, workDir).err # "ok" THEN "missing_real"
    ELSE SymlinkStatusAt(f, realPath, fakePath, Lstat(f, fakePath, workDir))

\* linkop.CreateSymlink after EnsureDirExists has left the filesystem in e.
CreateSymlinkAfter(e, realPath, fakePath) ==
    IF e.err # "ok" THEN [fs |-> e.fs, ino |-> e.ino]
    ELSE IF Lstat(e.fs, realPath, workDir).err # "ok" THEN [fs |-> e.fs, ino |-> e.ino]
    ELSE IF Lstat(e.fs, fakePath, workDir).err = "ok" THEN [fs |-> e.fs, ino |-> e.ino]
    ELSE [fs |-> Symlink(e.fs, realPath, fakePath, workDir, e.ino).fs, ino |-> e.ino + 1]

\* Checker/Fixer.recreateSymlink.
recreateSymlink(f, ino, realPath, fakePath) ==
    CreateSymlinkAfter(EnsureDirExists(f, fakePath, workDir, ino), realPath, fakePath)

\* os.Remove(fakePath) and, when it succeeded, recreateSymlink.
RemoveAndRecreate(f, ino, realPath, fakePath, rm) ==
    IF rm.err # "ok" THEN [fs |-> f, ino |-> ino]
    ELSE recreateSymlink(rm.fs, ino, realPath, fakePath)

Handled(act, f, ino) == [action |-> act, fs |-> f, ino |-> ino]

HandledBy(act, w) == Handled(act, w.fs, w.ino)

\* The answer of the user to AskChoice, or to AskYesNo ("d" is yes).
Answered(choice, f, ino, w) ==
    IF choice = "r" THEN HandledBy("keep", w)
    ELSE IF choice = "d" THEN Handled("delete", f, ino)
    ELSE IF choice = "e" THEN Handled("exit", f, ino)
    ELSE Handled("keep", f, ino)

\* Fixer.handleSymlinkIssue; the checker's is the same without the automatic
\* mode, marking the record "to_delete" where the fixer returns "delete".
handleSymlinkIssue(f, ino, realPath, fakePath, status, autoMode, choice) ==
    IF status = "missing_real"
    THEN Handled(IF ~autoMode /\ choice = "d" THEN "delete" ELSE "keep", f, ino)
    ELSE IF status = "missing_fake"
    THEN IF autoMode THEN HandledBy("keep", recreateSymlink(f, ino, realPath, fakePath))
         ELSE Answered(choice, f, ino, recreateSymlink(f, ino, realPath, fakePath))
    ELSE IF status = "not_symlink"
    THEN IF autoMode THEN Handled("keep", f, ino)
         ELSE Answered(choice, f, ino,
                       RemoveAndRecreate(f, ino, realPath, fakePath,
                                         Remove(f, fakePath, workDir)))
    ELSE IF status = "mismatch"
    THEN IF autoMode
         THEN HandledBy("keep", RemoveAndRecreate(f, ino, realPath, fakePath,
                                                  Remove(f, fakePath, workDir)))
         ELSE Answered(choice, f, ino,
                       RemoveAndRecreate(f, ino, realPath, fakePath,
                                         Remove(f, fakePath, workDir)))
    ELSE Handled("keep", f, ino)

\* One record of the loop of fixSymlinks, realPath being its absolute path.
FixedRecord(st, record, realPath, autoMode, choice) ==
    LET status == checkSymlinkStatus(st.fs, realPath, record.FakeAbsolute)
    IN IF status = "ok" THEN [st EXCEPT !.updated = Append(@, record)]
       ELSE LET h == handleSymlinkIssue(st.fs, st.ino, realPath, record.FakeAbsolute,
                                        status, autoMode, choice)
            IN [fs |-> h.fs, ino |-> h.ino,
                updated |-> IF h.action = "keep" THEN Append(st.updated, record)
                            ELSE st.updated,
                marked |-> IF h.action = "delete" THEN Append(st.marked, record)
                           ELSE st.marked,
                exited |-> h.action = "exit"]

RECURSIVE LegacyLoop(_, _, _, _)
\* The loop of fixSymlinks / checkSymlinks over the filtered records; os.Exit
\* ends the process inside the loop.
LegacyLoop(st, records, autoMode, choices) ==
    IF records = <<>> \/ st.exited THEN st
    ELSE LET a == LegacyToAbsolute(workDir, Head(records).RealRelative)
         IN LegacyLoop(IF a.err
                       THEN [st EXCEPT !.updated = Append(@, Head(records))]
                       ELSE FixedRecord(st, Head(records), a.val, autoMode, Head(choices)),
                       Tail(records), autoMode, Tail(choices))

\* Storage.SetSymlinks.
SetSymlinks(data, osType, records) == [data EXCEPT ![osType] = records]

\* The end of fixSymlinks / checkSymlinks: when a record was marked, the list
\* of the operating system is set to the records kept and the file is saved
\* (written to a temporary file that is renamed over the file).
LegacySaved(st, data, device, wOK) ==
    /\ fs' = st.fs
    /\ nextIno' = st.ino
    /\ disk' = IF ~st.exited /\ st.marked # <<>> /\ wOK
               THEN LinksFile(SetSymlinks(data, LegacyOS, st.updated))
               ELSE disk
    /\ sess' = [pc |-> "legacy", runs |-> sess.runs + 1, device |-> device,
                before |-> data, marked |-> st.marked,
                saved |-> ~st.exited /\ st.marked # <<>> /\ wOK]

LegacyRun(data, device, autoMode, choices, wOK) ==
    LegacySaved(LegacyLoop([fs |-> fs, ino |-> nextIno, updated |-> <<>>,
                            marked |-> <<>>, exited |-> FALSE],
                           filterSymlinksByDevice(data[LegacyOS], device),
                           autoMode, choices),
                data, device, wOK)

MaxLegacyRuns == 2
MaxLegacy == 3

Choices == [1..MaxLegacy -> {"r", "d", "i", "e"}]

\* flk fix --symlink [--device D] [--auto]: Storage.Load, then Fixer.fixSymlinks.
LegacyFix(device, autoMode, choices, wOK) ==
    /\ sess.runs < MaxLegacyRuns
    /\ LegacyRun(disk.Symlinks, device, autoMode, choices, wOK)
    /\ UNCHANGED <<last, steps>>

\* flk check --symlink [--device D], interactive: Storage.Load, then
\* Checker.checkSymlinks.
LegacyCheck(device, choices, wOK) ==
    /\ sess.runs < MaxLegacyRuns
    /\ LegacyRun(disk.Symlinks, device, FALSE, choices, wOK)
    /\ UNCHANGED <<last, steps>>

LegacyRecords ==
    << [RealRelative |-> RelA, FakeAbsolute |-> TmpL, Device |-> "laptop"],
       [RealRelative |-> <<"x">>, FakeAbsolute |-> TmpM, Device |-> "common"],
       [RealRelative |-> RelA, FakeAbsolute |-> TmpK, Device |-> "desktop"],
       [RealRelative |-> TmpA, FakeAbsolute |-> TmpA, Device |-> "laptop"] >>

\* Two or three of the records, in their order, as the list of this system.
LegacyLists ==
    { [i \in DOMAIN pick |-> LegacyRecords[pick[i]]] :
        pick \in { q \in UNION { [1..n -> DOMAIN LegacyRecords] : n \in 2..MaxLegacy } :
                      \A i, j \in DOMAIN q : i < j => q[i] < q[j] } }

\* /t/k is a link to /t/a, and /t/l may be a link to a file that is missing.
LegacyFiles == { Symlink(F0, TmpA, TmpK, workDir, Len(Nodes0) + 1).fs,
                 Symlink(Dangling, TmpA, TmpK, workDir, Len(Nodes0) + 2).fs }

LegacyInit ==
    /\ fs \in LegacyFiles
    /\ nextIno = Len(Nodes0) + 3
    /\ \E list \in LegacyLists :
          disk = LinksFile([os \in {LegacyOS, OtherOS} |->
                              IF os = LegacyOS THEN list ELSE <<LegacyRecords[1]>>])
    /\ last = NoLast
    /\ steps = [cmd |-> 0, env |-> 0]
    /\ sess = [pc |-> "legacy", runs |-> 0, device |-> "", before |-> disk.Symlinks,
               marked |-> <<>>, saved |-> FALSE]

LegacyNext ==
    \/ \E device \in {"", "laptop"}, autoMode \in BOOLEAN, choices \in Choices,
          wOK \in BOOLEAN : LegacyFix(device, autoMode, choices, wOK)
    \/ \E device \in {"", "laptop"}, choices \in Choices, wOK \in BOOLEAN :
          LegacyCheck(device, choices, wOK)

SpecLegacy == LegacyInit /\ [][LegacyNext]_vars

Elements(list) == { list[i] : i \in DOMAIN list }

\* The last run marked records for deletion and saved the registry.
DeletedAndSaved == sess.pc = "legacy" /\ sess.runs > 0 /\ sess.saved

\* C29: when a run of the legacy checker or fixer restricted to a device has
\* marked records for deletion and saved, the saved registry still holds
\* every record of the current operating system that was not marked,
\* the records of the devices that the filter left out included.
C29_OtherDevicesKept ==
    DeletedAndSaved =>
        \A record \in Elements(sess.before[LegacyOS]) :
            record \notin Elements(sess.marked) =>
                record \in Elements(disk.Symlinks[LegacyOS])

\* A run restricted to the device laptop has deleted a record and saved, and
\* the record of the device desktop, which it never examined, is no longer
\* in the file.
C29_Witness ==
    /\ DeletedAndSaved
    /\ sess.device = "laptop"
    /\ LegacyRecords[3] \in Elements(sess.before[LegacyOS])
    /\ LegacyRecords[3] \notin Elements(sess.marked)
    /\ LegacyRecords[3] \notin Elements(disk.Symlinks[LegacyOS])

(***************************************************************************)
(* Folding of paths that are not under the home directory.                 *)
(***************************************************************************)
\* The folded value has one of the three shapes: "~", "~/..." or the path.
FoldedShape ==
    \/ sess.folded = <<"~">>
    \/ HasPrefix(sess.folded, <<"~", SEP>>)
    \/ sess.folded = sess.path

\* C30: folding leaves unchanged every path that is neither the home
\* directory nor below it, a sibling whose name begins with the name of the
\* home directory included; so a folded value is "~", or begins with "~" and a
\* separator, or is the path itself, and ExpandHome does not fail on it.
C30_FoldOnlyUnderHome ==
    sess.pc \in {"folded", "expanded"} =>
        /\ ~UnderHome(Clean(sess.path)) => sess.folded = sess.path
        /\ FoldedShape
        /\ (sess.pc = "expanded" /\ sess.with = "ExpandHome") =>
               /\ ~sess.err
               /\ sess.folded # <<>> => sess.val # <<>>

\* foldPath has folded /ha, a sibling of the home directory /h, to ~a, and
\* ExpandHome has returned the empty path for it.
C30_Witness ==
    /\ sess.pc = "expanded"
    /\ sess.by = "foldPath"
    /\ sess.with = "ExpandHome"
    /\ sess.path = <<"/", "h", "a">>
    /\ sess.folded = <<"~", "a">>
    /\ sess.val = <<>>

====
